---- MODULE Spec2Model ----
(***************************************************************************)
(* JigAi: idle detection for terminal sessions.                            *)
(*                                                                         *)
(* The module models the detection engine (jigai/watcher/detector.py), the *)
(* pattern registry (jigai/watcher/patterns.py), the watcher that feeds    *)
(* it (jigai/watcher/watcher.py) and the hub that fans idle events out to  *)
(* WebSocket subscribers (jigai/server/app.py, jigai/server/ws_manager.py).*)
(*                                                                         *)
(* Text is a sequence of one-character strings.  time.time() is the        *)
(* integer variable clock, in seconds.                                     *)
(***************************************************************************)
EXTENDS Integers, Sequences, FiniteSets, TLC

VARIABLES
    clock,          \* time.time(), whole seconds
    registry,       \* PatternRegistry: timeout_seconds, cooldown_seconds (tools: Tools)
    tool_hint,      \* Detector.tool_hint
    state,          \* Detector.state : DetectorState
    events,         \* every invocation of Detector.on_idle, in order
    last,           \* history: the last detector call, with the state it started from
    since,          \* history: "none" | "quiet" | "fed" (what happened since the last idle event)
    pc,             \* per thread: where it is inside feed_line / check_timeout / _trigger_idle
    frame,          \* per thread: the locals of the call it is in
    config,         \* Watcher.config.notifications: macos, only_when_away
    on_idle_event,  \* TRUE when the Watcher was given an external idle callback
    frontmost_terminal, \* what is_terminal_focused() answers now
    watcher,        \* Watcher: _line_buffer, session.status, session.last_output,
                    \*   and the calls made to notify_macos and to the external callback
    fed,            \* history: the feed_line calls made by _handle_output
    stream,         \* the bytes the child writes in all
    pos,            \* how many bytes of stream the PTY proxy has delivered
    redact_patterns,    \* Detector._redact_patterns, in the order they are applied
    ring_log,       \* history: the raw lines given to feed_line that are non-empty once
                    \*   cleaned, in feed order (kept by the single-threaded calls)
    active_connections, \* ConnectionManager.active_connections
    lock,           \* ConnectionManager._lock: the task that holds it, or None
    sockets,        \* per WebSocket: "none" | "open" | "closed" (by the client)
    tasks,          \* per hub coroutine: where it is suspended, and its locals
    event_history,  \* app.event_history
    sessions,       \* app.sessions: session id -> status
    arrivals,       \* history: how many POST /api/events bodies were accepted
    cast,           \* history: the last broadcast that ran to its end
    response,       \* the last response a REST handler returned
    last_request,   \* history: per session id, the last request the hub took for it
    served,         \* history: how many session and event requests the hub took
    waiters,        \* ConnectionManager._lock: the coroutines waiting for it, first come first
    inbox,          \* history: per socket, the frames its client was delivered, in order,
                    \*   for as long as the client keeps the connection
    raw_text,       \* the argument of _sanitize
    sanitized,      \* whether _sanitize was called, and what it returned
    hub_status,     \* what a request to the hub's address meets now
    client_log,     \* history: the ServerClient calls made, with what each returned or raised
    proxy,          \* PtyProxy: where run() is, _running, exit_code, the master fd,
                    \*   _child_pid, _old_termios, select's rlist, the exception leaving run()
    child,          \* the child process: its status, exit code, whether it was reaped and
                    \*   whether SIGTERM was sent to it, and how many chunks it wrote
    pty_buffer,     \* the chunks the child wrote that the master has not read yet
    terminal,       \* the mode of the parent's terminal: "cooked" | "raw"
    relay,          \* history: the chunks read from the master, written to the parent's
                    \*   output, and handed to on_output
    run             \* the watch command around the proxy: where the main thread is,
                    \*   Watcher._running, the ticker thread, the order of its steps

detVars == <<registry, tool_hint, state, events>>
histVars == <<last, since>>
thrVars == <<pc, frame>>
watchVars == <<config, on_idle_event, frontmost_terminal, watcher, fed, stream, pos>>
redactVars == <<redact_patterns, ring_log>>
reqVars == <<last_request, served>>
hubVars == <<active_connections, lock, waiters, sockets, tasks, event_history, sessions,
             arrivals, cast, response, inbox, reqVars>>
procVars == <<proxy, child, pty_buffer, terminal, relay, run>>
runVars == <<raw_text, sanitized, hub_status, client_log, procVars>>
vars == <<clock, detVars, histVars, thrVars, watchVars, redactVars, hubVars, runVars>>

\* what the calls on a bare detector leave alone
seqFrame == <<thrVars, watchVars, redact_patterns, hubVars, runVars>>
\* what the steps of the two threads leave alone
thrFrame == <<histVars, watchVars, redactVars, hubVars, runVars>>
\* what the watcher's handlers leave alone
watchFrame == <<histVars, thrVars, redactVars, hubVars, runVars>>
\* what the hub's handlers leave alone
hubFrame == <<clock, detVars, histVars, thrVars, watchVars, redactVars, runVars>>

(***************************************************************************)
(* Bounds of the model.                                                    *)
(***************************************************************************)
\* the wall clock when the detector is constructed (time.time() is far past any cooldown)
Epoch == 6
\* how many seconds past Epoch the clock is followed
Horizon == 3
\* the largest cooldown_seconds tried
MaxCooldown == 2
\* the largest timeout_seconds tried
MaxTimeout == 2
\* how many on_idle invocations are followed
MaxEvents == 2
\* how many lines the ring is followed for
MaxFed == 3
\* how many lines the ring is followed for while the two threads interleave
MaxThreadFed == 2

\* DetectorState.output_buffer is a deque(maxlen=50)
RingMaxLen == 50
\* _trigger_idle hands the last 10 ring entries to the callback
RecentLines == 10

None == "None"

(***************************************************************************)
(* Sequence helpers.                                                       *)
(***************************************************************************)
\* s[i..] (1-based), empty when i > Len(s)
From(s, i) == IF i > Len(s) THEN <<>> ELSE SubSeq(s, i, Len(s))

\* s[-n:]
LastN(s, n) ==
    IF n = 0 THEN s                 \* Python: s[-0:] is s[0:], the whole list
    ELSE IF n < 0 THEN From(s, 1 - n)   \* s[k:] for k = -n > 0
    ELSE IF Len(s) <= n THEN s ELSE SubSeq(s, Len(s) - n + 1, Len(s))

IsPrefixAt(lit, s, i) ==
    /\ i + Len(lit) - 1 <= Len(s)
    /\ \A k \in 1..Len(lit) : s[i + k - 1] = lit[k]

\* re.search of a literal
Contains(lit, s) == \E i \in 1..(Len(s) + 1) : IsPrefixAt(lit, s, i)

(***************************************************************************)
(* Characters.                                                             *)
(***************************************************************************)
ESC == "ESC"
BEL == "BEL"
NL == "\n"
\* \s
Space == {" ", "\n", "\r", "\t"}
\* [0-9;]
DigitSemi == {"0", "3", ";"}
\* [a-zA-Z]
Letter == {"a", "m", "x", "k", "w", "Q"}
\* [@-~] : the letters and the punctuation from @ up (not > = space digits)
FinalByte == Letter \cup {"@", "[", "]"}
\* every character the model's texts are written in
Char == Space \cup DigitSemi \cup FinalByte \cup {">", "=", "ESC", "BEL", "[REDACTED]", "U+FFFD", "e'"}
IsSpace(c) == c \in Space

\* str.strip()
RECURSIVE LStrip(_)
LStrip(s) == IF s # <<>> /\ IsSpace(Head(s)) THEN LStrip(Tail(s)) ELSE s
RECURSIVE RStrip(_)
RStrip(s) ==
    IF s # <<>> /\ IsSpace(s[Len(s)]) THEN RStrip(SubSeq(s, 1, Len(s) - 1)) ELSE s
Strip(s) == RStrip(LStrip(s))

(***************************************************************************)
(* strip_ansi: _ANSI_RE.sub("", text), with                                *)
(*   _ANSI_RE = ESC\[[0-9;]*[a-zA-Z] | ESC\].*?BEL | ESC\[.*?[@-~]         *)
(* AnsiMatchEnd(s, i) is the index of the last character of the match      *)
(* that starts at i, or 0 when none of the alternatives matches there.     *)
(***************************************************************************)
RECURSIVE SkipWhile(_, _, _)
\* first index >= i whose character is not in the class (Len(s)+1 at the end)
SkipWhile(s, i, class) ==
    IF i <= Len(s) /\ s[i] \in class THEN SkipWhile(s, i + 1, class) ELSE i

RECURSIVE FindLazy(_, _, _)
\* .*?X : first index >= i holding a character of the class, with no newline before it; 0 if none
FindLazy(s, i, class) ==
    IF i > Len(s) THEN 0
    ELSE IF s[i] \in class THEN i
    ELSE IF s[i] = NL THEN 0
    ELSE FindLazy(s, i + 1, class)

AnsiMatchEnd(s, i) ==
    IF ~(i + 1 <= Len(s) /\ s[i] = ESC) THEN 0
    ELSE IF s[i + 1] = "["
    THEN LET j == SkipWhile(s, i + 2, DigitSemi)
         IN  IF j <= Len(s) /\ s[j] \in Letter THEN j
             ELSE FindLazy(s, i + 2, FinalByte)
    ELSE IF s[i + 1] = "]" THEN FindLazy(s, i + 2, {BEL})
    ELSE 0

RECURSIVE StripAnsiFrom(_, _)
StripAnsiFrom(s, i) ==
    IF i > Len(s) THEN <<>>
    ELSE LET e == AnsiMatchEnd(s, i)
         IN  IF e > 0 THEN StripAnsiFrom(s, e + 1)
             ELSE <<s[i]>> \o StripAnsiFrom(s, i + 1)

strip_ansi(text) == StripAnsiFrom(text, 1)

(***************************************************************************)
(* The pattern registry.  A pattern is one of                              *)
(*   [kind |-> "suffix", lit |-> l]    the regex  l\s*$                    *)
(*   [kind |-> "contains", lit |-> l]  the regex  l                        *)
(* and p.search(line) is PatternSearch(p, line).                           *)
(***************************************************************************)
\* $ matches at the end and before one trailing newline
PatternSearch(p, line) ==
    IF p.kind = "suffix"
    THEN \E i \in 1..(Len(line) + 1) :
            /\ IsPrefixAt(p.lit, line, i)
            /\ LET rest == From(line, i + Len(p.lit))
                   j == SkipWhile(rest, 1, Space)
               IN  \/ j = Len(rest) + 1
                   \* \s* backtracks to leave a final newline to $
                   \/ rest # <<>> /\ rest[Len(rest)] = NL /\ j >= Len(rest)
    ELSE Contains(p.lit, line)

\* PatternRegistry.tools, in insertion order: a registry shaped like the tests'
\* make_registry, with one-character prompts (">" for claude_code, "x>" for codex, so
\* that a codex prompt is also a claude_code prompt, and "w" for "waiting for input")
Tools ==
    << [key |-> "claude_code", name |-> "Claude Code",
        patterns |-> << [kind |-> "suffix", lit |-> <<">">>],
                        [kind |-> "contains", lit |-> <<"w">>] >>],
       [key |-> "codex", name |-> "Codex",
        patterns |-> << [kind |-> "suffix", lit |-> <<"x", ">">>] >>] >>

ToolKeys == {Tools[i].key : i \in 1..Len(Tools)}
ToolByKey(key) == Tools[CHOOSE i \in 1..Len(Tools) : Tools[i].key = key]

\* ToolPattern.matches
ToolMatches(tool, line) ==
    \E i \in 1..Len(tool.patterns) : PatternSearch(tool.patterns[i], line)

\* match_any that keeps looking after a match and returns the last tool that matches
match_any_last(line) ==
    IF \E i \in 1..Len(Tools) : ToolMatches(Tools[i], line)
    THEN Tools[CHOOSE i \in 1..Len(Tools) :
                  /\ ToolMatches(Tools[i], line)
                  /\ \A j \in (i + 1)..Len(Tools) : ~ToolMatches(Tools[j], line)].key
    ELSE None

\* PatternRegistry.match_any
match_any(line) ==
    IF \E i \in 1..Len(Tools) : ToolMatches(Tools[i], line)
    THEN Tools[CHOOSE i \in 1..Len(Tools) :
                  /\ ToolMatches(Tools[i], line)
                  /\ \A j \in 1..(i - 1) : ~ToolMatches(Tools[j], line)].key
    ELSE None

\* PatternRegistry.get_tool_name
get_tool_name(key) == IF key \in ToolKeys THEN ToolByKey(key).name ELSE key

(***************************************************************************)
(* Redaction: Detector._redact applies the patterns of redact_patterns one *)
(* after the other, each with pat.sub("[REDACTED]", line).  A pattern is   *)
(*   [kind |-> "keyword"]   the regex  k=\S+   (a keyword, "=", the secret) *)
(*   [kind |-> "upper"]     the regex  [A-Z]+                              *)
(* The replacement text is the one token "[REDACTED]"; its letters are     *)
(* upper-case, so [A-Z]+ matches inside it.                                *)
(***************************************************************************)
\* \S
NonSpace == Char \ Space
\* [A-Z] among the single letters
Upper == {"Q"}

KeywordPattern == [kind |-> "keyword"]
UpperPattern == [kind |-> "upper"]

\* NotificationConfig.redact_patterns by default: one keyword pattern
DefaultRedact == <<KeywordPattern>>

RECURSIVE RedactFrom(_, _)
RedactFrom(s, i) ==
    IF i > Len(s) THEN <<>>
    ELSE IF /\ IsPrefixAt(<<"k", "=">>, s, i)
            /\ i + 2 <= Len(s)
            /\ s[i + 2] \in NonSpace
         THEN <<"[REDACTED]">> \o RedactFrom(s, SkipWhile(s, i + 2, NonSpace))
         ELSE <<s[i]>> \o RedactFrom(s, i + 1)

\* [A-Z]+ replaced: a run of upper-case letters becomes the token, and the letters
\* inside a token already there are replaced in their turn, between its brackets
RECURSIVE RedactUpperFrom(_, _)
RedactUpperFrom(s, i) ==
    IF i > Len(s) THEN <<>>
    ELSE IF s[i] \in Upper
         THEN <<"[REDACTED]">> \o RedactUpperFrom(s, SkipWhile(s, i, Upper))
    ELSE IF s[i] = "[REDACTED]"
         THEN <<"[", "[REDACTED]", "]">> \o RedactUpperFrom(s, i + 1)
    ELSE <<s[i]>> \o RedactUpperFrom(s, i + 1)

\* pat.sub("[REDACTED]", line)
PatternSub(p, line) ==
    IF p.kind = "keyword" THEN RedactFrom(line, 1) ELSE RedactUpperFrom(line, 1)

\* pat.search(line) is not None
RedactMatches(p, line) ==
    IF p.kind = "keyword"
    THEN \E i \in 1..Len(line) :
            /\ IsPrefixAt(<<"k", "=">>, line, i)
            /\ i + 2 <= Len(line)
            /\ line[i + 2] \in NonSpace
    ELSE \E i \in 1..Len(line) : line[i] \in Upper \cup {"[REDACTED]"}

\* the loop of _redact over a pattern list
RECURSIVE RedactWith(_, _)
RedactWith(pats, line) ==
    IF pats = <<>> THEN line
    ELSE RedactWith(Tail(pats), PatternSub(Head(pats), line))

\* Detector._redact
redact(line) == RedactWith(redact_patterns, line)

(***************************************************************************)
(* The detector.  A call works on the pair d = [state, events]: the        *)
(* DetectorState and the invocations of on_idle made so far.               *)
(***************************************************************************)
\* DetectorState(), constructed at time now
DetectorState(now) ==
    [last_output_time       |-> now,
     last_idle_notification |-> 0,
     output_buffer          |-> <<>>,
     is_idle                |-> FALSE,
     detected_tool          |-> None]

\* a ring that, once full, drops the incoming line instead of the oldest one
RingAppend_drop_newest(buf, line) ==
    IF Len(buf) >= RingMaxLen THEN buf ELSE Append(buf, line)

\* deque(maxlen=50).append
RingAppend(buf, line) ==
    IF Len(buf) >= RingMaxLen THEN Append(Tail(buf), line) ELSE Append(buf, line)

\* the gate with <= for <: an attempt exactly cooldown_seconds after a fire is suppressed
InCooldown_inclusive(st, now) == now - st.last_idle_notification <= registry.cooldown_seconds

\* the cooldown gate of _trigger_idle: TRUE when the attempt is suppressed
InCooldown(st, now) == now - st.last_idle_notification < registry.cooldown_seconds

\* _trigger_idle that raises is_idle before the cooldown gate
trigger_idle_flag_first(d, method, tool_key, now) ==
    IF InCooldown(d.state, now) THEN [d EXCEPT !.state.is_idle = TRUE]
    ELSE [state  |-> [d.state EXCEPT !.is_idle = TRUE,
                                     !.last_idle_notification = now,
                                     !.detected_tool = tool_key],
          events |-> Append(d.events,
                        [method       |-> method,
                         tool_key     |-> tool_key,
                         idle_seconds |-> now - d.state.last_output_time,
                         recent       |-> LastN(d.state.output_buffer, RecentLines),
                         now          |-> now,
                         at           |-> now])]

\* _trigger_idle that forgets to raise is_idle
trigger_idle_no_flag(d, method, tool_key, now) ==
    IF InCooldown(d.state, now) THEN d
    ELSE [state  |-> [d.state EXCEPT !.last_idle_notification = now,
                                     !.detected_tool = tool_key],
          events |-> Append(d.events,
                        [method       |-> method,
                         tool_key     |-> tool_key,
                         idle_seconds |-> now - d.state.last_output_time,
                         recent       |-> LastN(d.state.output_buffer, RecentLines),
                         now          |-> now,
                         at           |-> now])]

\* Detector._trigger_idle
trigger_idle(d, method, tool_key, now) ==
    IF InCooldown(d.state, now) THEN d
    ELSE [state  |-> [d.state EXCEPT !.is_idle = TRUE,
                                     !.last_idle_notification = now,
                                     !.detected_tool = tool_key],
          events |-> Append(d.events,
                        [method       |-> method,
                         tool_key     |-> tool_key,
                         idle_seconds |-> now - d.state.last_output_time,
                         recent       |-> LastN(d.state.output_buffer, RecentLines),
                         now          |-> now,
                         at           |-> now])]

\* strip_ansi(raw_line).strip()
Clean(raw_line) == Strip(strip_ansi(raw_line))

\* feed_line that tries the patterns on the redacted copy of the line
MatchedTool_redacted(clean) ==
    IF /\ tool_hint # None
       /\ tool_hint \in ToolKeys
       /\ ToolMatches(ToolByKey(tool_hint), redact(clean))
    THEN tool_hint
    ELSE match_any(redact(clean))

\* feed_line that never tries the hinted tool first
MatchedTool_ignore_hint(clean) == match_any(clean)

\* the tool feed_line matches a cleaned line to: the hinted tool first, then match_any
MatchedTool(clean) ==
    IF /\ tool_hint # None
       /\ tool_hint \in ToolKeys
       /\ ToolMatches(ToolByKey(tool_hint), clean)
    THEN tool_hint
    ELSE match_any(clean)

\* feed_line that does not clear is_idle
StoreLine_keep_idle(st, clean, now) ==
    [st EXCEPT !.output_buffer = RingAppend(@, redact(clean)),
               !.last_output_time = now]

\* what feed_line writes before it tries the patterns
StoreLine(st, clean, now) ==
    [st EXCEPT !.output_buffer = RingAppend(@, redact(clean)),
               !.last_output_time = now,
               !.is_idle = FALSE]

\* feed_line without the early return on an empty line
feed_line_store_empty(d, raw_line, now) ==
    LET clean == Clean(raw_line)
        d1 == [d EXCEPT !.state = StoreLine(d.state, clean, now)]
        matched_tool == MatchedTool(clean)
    IN  IF matched_tool # None
        THEN trigger_idle(d1, "pattern", matched_tool, now)
        ELSE d1

\* Detector.feed_line
feed_line(d, raw_line, now) ==
    LET clean == Clean(raw_line)
    IN  IF clean = <<>> THEN d
        ELSE LET d1 == [d EXCEPT !.state = StoreLine(d.state, clean, now)]
                 matched_tool == MatchedTool(clean)
             IN  IF matched_tool # None
                 THEN trigger_idle(d1, "pattern", matched_tool, now)
                 ELSE d1

\* the timeout test with > for >=
TimeoutDue_strict(st, now) ==
    /\ now - st.last_output_time > registry.timeout_seconds
    /\ ~st.is_idle

\* the timeout test without the is_idle guard
TimeoutDue_no_idle_guard(st, now) ==
    now - st.last_output_time >= registry.timeout_seconds

\* the condition under which check_timeout tries to trigger
TimeoutDue(st, now) ==
    /\ now - st.last_output_time >= registry.timeout_seconds
    /\ ~st.is_idle

\* Detector.check_timeout
check_timeout(d, now) ==
    IF TimeoutDue(d.state, now)
    THEN trigger_idle(d, "timeout", IF tool_hint # None THEN tool_hint ELSE "unknown", now)
    ELSE d

(***************************************************************************)
(* Spec: one Detector driven by single-threaded calls, as in the tests.    *)
(***************************************************************************)
\* raw lines fed to the detector
Lines ==
    { <<>>,                                   \* ""
      <<" ">>,                                \* whitespace only
      <<ESC, "[", "3", "m">>,                 \* an escape sequence only
      <<"a">>,                                \* plain output
      <<">", " ">>,                           \* a claude_code prompt
      <<ESC, "[", "3", "m", "x", ">">> }      \* a coloured prompt of codex (and of claude_code)

Hints == {None, "codex", "unknown"}

\* the history of what happened since the last idle event
SinceAfter(prev, fired, stored) ==
    IF fired THEN "quiet"
    ELSE IF stored /\ prev = "quiet" THEN "fed"
    ELSE prev

\* the threads of a watcher: the PTY I/O loop (main thread) and the timeout ticker
Threads == {"pty", "ticker"}

NoFrame ==
    [now |-> 0, method |-> None, tool_key |-> None, clean |-> <<>>,
     idle_seconds |-> 0, recent |-> <<>>]

\* the hub's coroutines: handlers of POST /api/events, and one /ws endpoint per socket
Posts == {"p1", "p2"}
Sockets == {"s1", "s2"}
SessionIds == {"sess", "other"}

\* no dict was given to broadcast
NoData == [type |-> None, seq |-> 0, session_id |-> None, keys |-> {}]

\* a handler that is not running
NoTask ==
    [pc |-> "idle", event |-> NoData, begun |-> <<>>, start |-> <<>>, i |-> 0,
     dead |-> <<>>, sent |-> <<>>]

NoCast ==
    [by |-> None, event |-> NoData, begun |-> <<>>, start |-> <<>>, sent |-> <<>>,
     failed |-> <<>>, after |-> <<>>, open |-> {}]

\* no request was made for a session id
NoRequest == [kind |-> "none", n |-> 0]

NoResponse == [op |-> None, clients |-> 0, limit |-> 0, events |-> <<>>, history |-> <<>>]

\* a socket no client has opened
NoSocket == [link |-> "none", at |-> "idle"]

\* the hub's module state when app.py is imported: nothing connected, nothing stored
NoHub ==
    /\ active_connections = <<>>
    /\ lock = None
    /\ waiters = <<>>
    /\ sockets = [s \in Sockets |-> NoSocket]
    /\ inbox = [s \in Sockets |-> <<>>]
    /\ tasks = [p \in Posts |-> NoTask]
    /\ event_history = <<>>
    /\ sessions = [sid \in SessionIds |-> "absent"]
    /\ arrivals = 0
    /\ cast = NoCast
    /\ response = NoResponse
    /\ last_request = [sid \in SessionIds |-> NoRequest]
    /\ served = 0

\* _sanitize has not been called
NoSanitize ==
    /\ raw_text = <<>>
    /\ sanitized = [called |-> FALSE, result |-> <<>>]

\* a ServerClient just constructed, its hub answering
NoClient ==
    /\ hub_status = "up"
    /\ client_log = <<>>

\* PtyProxy.__init__ (looped is history: select was called)
NewProxy ==
    [pc |-> "new", running |-> FALSE, exit_code |-> 0, master |-> "none",
     child_pid |-> FALSE, old_termios |-> FALSE, rlist |-> {}, stdin |-> "quiet",
     raised |-> None, looped |-> FALSE]

\* the proxy at pc, with what select returned forgotten once the loop has used it; that
\* the parent's input ended is kept (as history) through the drain and the wait
At(px, pc_) ==
    IF pc_ \in {"master", "stdin"} THEN [px EXCEPT !.pc = pc_]
    ELSE [px EXCEPT !.pc = pc_, !.rlist = {},
                    !.stdin = IF px.pc \in {"stdin", "drain"} /\ px.stdin = "eof"
                                 /\ pc_ \in {"drain", "wait"}
                              THEN "eof" ELSE "quiet"]

\* no child was forked
\* (immediate is history: the child ended before the first select of the I/O loop)
NoChild ==
    [status |-> "none", code |-> 0, reaped |-> FALSE, sigterm |-> FALSE, wrote |-> 0,
     immediate |-> FALSE]

\* the watch command before its first step
NoWatch ==
    [pc |-> "new", running |-> FALSE, ticker |-> "none", wake |-> 0,
     server_client |-> FALSE, log |-> <<>>, exit_code |-> 0, raised |-> None]

\* no watch command runs
NoProxy ==
    /\ proxy = NewProxy
    /\ child = NoChild
    /\ pty_buffer = <<>>
    /\ terminal = "cooked"
    /\ relay = [read |-> <<>>, written |-> <<>>, observed |-> <<>>]
    /\ run = NoWatch

\* nothing outside the detector, the watcher and the hub has been called
NoRun == NoSanitize /\ NoClient /\ NoProxy

\* a Detector just constructed, with no call made on it
InitDetector ==
    /\ clock = Epoch
    /\ registry \in [timeout_seconds : 1..MaxTimeout, cooldown_seconds : 0..MaxCooldown]
    /\ tool_hint \in Hints
    /\ state = DetectorState(Epoch)
    /\ events = <<>>
    /\ last = [op |-> "init", raw |-> <<>>, now |-> Epoch, pre |-> DetectorState(Epoch),
               n_events |-> 0, since |-> "none"]
    /\ since = "none"
    /\ pc = [t \in Threads |-> "idle"]
    /\ frame = [t \in Threads |-> NoFrame]
    /\ redact_patterns = <<>>
    /\ ring_log = <<>>

\* Watcher.__init__: an empty line buffer, an ACTIVE session, nothing sent yet
NewWatcher ==
    [line_buffer |-> <<>>, status |-> "active", last_output |-> <<>>,
     notified |-> <<>>, pushed |-> <<>>]

\* the history of _handle_output's feeds: every call (the line, and whether it was a
\* completed line), the cleaned texts that emitted an event while the physical line now
\* being assembled was fed, and how many events repeated one of them
NoFeeds == [calls |-> <<>>, line_fired |-> {}, refires |-> 0]

\* no Watcher around the detector: on_idle only records the event
NoWatcher ==
    /\ config = [macos |-> FALSE, only_when_away |-> FALSE]
    /\ on_idle_event = FALSE
    /\ frontmost_terminal = FALSE
    /\ watcher = NewWatcher
    /\ fed = NoFeeds
    /\ stream = <<>>
    /\ pos = 0

Init == InitDetector /\ NoWatcher /\ NoHub /\ NoRun

\* time passes
Tick ==
    /\ clock < Epoch + Horizon
    /\ clock' = clock + 1
    /\ UNCHANGED <<detVars, histVars, thrVars, watchVars, redactVars, hubVars, runVars>>

\* the bookkeeping of one detector call that turned d into d2
Called(op, raw, d2) ==
    /\ state' = d2.state
    /\ events' = d2.events
    /\ last' = [op |-> op, raw |-> raw, now |-> clock, pre |-> state,
                n_events |-> Len(events), since |-> since]
    /\ since' = SinceAfter(since, Len(d2.events) > Len(events),
                           op = "feed_line" /\ Clean(raw) # <<>>)
    /\ ring_log' = IF op = "feed_line" /\ Clean(raw) # <<>>
                   THEN Append(ring_log, raw)
                   ELSE ring_log
    /\ UNCHANGED <<clock, registry, tool_hint, seqFrame>>

\* detector.feed_line(raw)
FeedLine ==
    /\ Len(events) < MaxEvents
    /\ Len(state.output_buffer) < MaxFed
    /\ \E raw \in Lines :
          Called("feed_line", raw, feed_line([state |-> state, events |-> events], raw, clock))

\* detector.check_timeout()
CheckTimeout ==
    /\ Len(events) < MaxEvents
    /\ Called("check_timeout", <<>>, check_timeout([state |-> state, events |-> events], clock))

Next == Tick \/ FeedLine \/ CheckTimeout

Spec == Init /\ [][Next]_vars

(***************************************************************************)
(* Properties of the single-threaded detector (Spec).                      *)
(***************************************************************************)
\* the last call invoked on_idle
Fired == Len(events) > last.n_events

\* the last call reached _trigger_idle
Attempted ==
    \/ /\ last.op = "feed_line"
       /\ Clean(last.raw) # <<>>
       /\ MatchedTool(Clean(last.raw)) # None
    \/ /\ last.op = "check_timeout"
       /\ last.now - last.pre.last_output_time >= registry.timeout_seconds
       /\ ~last.pre.is_idle

\* the last call was a feed_line of a line that is non-empty once cleaned
FedNonEmpty == last.op = "feed_line" /\ Clean(last.raw) # <<>>

\* C1: a trigger attempt at time now invokes on_idle iff
\* now - last_idle_notification >= cooldown_seconds; the invocation stores now in
\* last_idle_notification; so successive idle events are at least cooldown_seconds apart.
C1_CooldownGate ==
    /\ Attempted =>
          (Fired <=> last.now - last.pre.last_idle_notification >= registry.cooldown_seconds)
    /\ Fired =>
          /\ Attempted
          /\ Len(events) = last.n_events + 1
          /\ state.last_idle_notification = last.now
    /\ ~Fired => state.last_idle_notification = last.pre.last_idle_notification
    /\ \A i \in 1..(Len(events) - 1) :
          events[i + 1].now - events[i].now >= registry.cooldown_seconds

\* C1 witness: the second event fired exactly cooldown_seconds after the first
C1_Witness ==
    /\ registry.cooldown_seconds > 0
    /\ Len(events) = 2
    /\ Fired
    /\ events[2].now - events[1].now = registry.cooldown_seconds

\* C3: is_idle is true iff an idle event has been emitted and no non-empty line has
\* been fed since that emission.
C3_IdleIffQuietSinceEvent == state.is_idle <=> since = "quiet"

\* C3 witness: an event was emitted and a non-empty line was fed after it
C3_Witness == since = "fed" /\ FedNonEmpty /\ last.pre.is_idle

\* C4 as stated: after a feed_line of a non-empty line, is_idle is false.
C4_Original == FedNonEmpty => ~state.is_idle

\* C4 amended: after a feed_line of a non-empty line, is_idle is true exactly when that
\* feed itself emitted a pattern event, and false otherwise.
C4_IdleAfterFeedIffFired == FedNonEmpty => (state.is_idle <=> Fired)

\* C4 witness: a prompt line fed while idle and inside the cooldown: no event, is_idle cleared
C4_Witness ==
    /\ FedNonEmpty
    /\ MatchedTool(Clean(last.raw)) # None
    /\ last.pre.is_idle
    /\ ~Fired
    /\ ~state.is_idle

\* C5: check_timeout triggers exactly when now - last_output_time >= timeout_seconds and
\* is_idle is false; then, cooldown permitting, it emits one "timeout" event for the hint
\* or "unknown"; otherwise it changes nothing and emits nothing.
C5_TimeoutBoundary ==
    last.op = "check_timeout" =>
        LET due == /\ last.now - last.pre.last_output_time >= registry.timeout_seconds
                   /\ ~last.pre.is_idle
            permitted ==
                last.now - last.pre.last_idle_notification >= registry.cooldown_seconds
        IN  IF due /\ permitted
            THEN /\ Len(events) = last.n_events + 1
                 /\ events[Len(events)].method = "timeout"
                 /\ events[Len(events)].tool_key =
                        (IF tool_hint # None THEN tool_hint ELSE "unknown")
                 /\ state.is_idle
                 /\ state.last_idle_notification = last.now
            ELSE /\ state = last.pre
                 /\ Len(events) = last.n_events

\* C5 witness: check_timeout fired at a silence of exactly timeout_seconds
C5_Witness ==
    /\ last.op = "check_timeout"
    /\ Fired
    /\ last.now - last.pre.last_output_time = registry.timeout_seconds

\* C6: after a timeout event, check_timeout calls with no non-empty feed_line in between
\* emit nothing more, whatever the cooldown.
C6_OneTimeoutPerSilence ==
    ( /\ last.op = "check_timeout"
      /\ last.since = "quiet"
      /\ last.n_events > 0
      /\ events[last.n_events].method = "timeout" )
    => Len(events) = last.n_events

\* C6 witness: with no cooldown, a check_timeout made after a timeout event, the silence
\* still past the timeout
C6_Witness ==
    /\ registry.cooldown_seconds = 0
    /\ last.op = "check_timeout"
    /\ last.since = "quiet"
    /\ last.n_events > 0
    /\ events[last.n_events].method = "timeout"
    /\ last.now - last.pre.last_output_time >= registry.timeout_seconds
    /\ last.now - last.pre.last_idle_notification >= registry.cooldown_seconds

\* C13: feed_line of a line that is empty after ANSI stripping and trimming leaves the
\* whole detector state unchanged and emits no event.
C13_EmptyLineIgnored ==
    (last.op = "feed_line" /\ Strip(strip_ansi(last.raw)) = <<>>) =>
        /\ state = last.pre
        /\ Len(events) = last.n_events

\* C13 witness: an escape-only or whitespace-only line fed, later than the last output,
\* while the detector is idle: the flag stays up and the silence timer is not restarted
C13_Witness ==
    /\ last.op = "feed_line"
    /\ last.raw \in {<<" ">>, <<ESC, "[", "3", "m">>}
    /\ last.pre.is_idle
    /\ state.is_idle
    /\ last.now > state.last_output_time

\* C14: a pattern event of feed_line carries the hint as its tool key when the hint is a
\* registry key and one of that tool's patterns matches the line, even if an earlier
\* tool matches too; otherwise it carries match_any's result; and the feed attempts an
\* event exactly when some tool matches, whatever the hint.
C14_HintFirst ==
    (last.op = "feed_line" /\ Clean(last.raw) # <<>>) =>
        LET clean == Clean(last.raw)
            hinted == /\ tool_hint \in ToolKeys
                      /\ ToolMatches(ToolByKey(tool_hint), clean)
            expected == IF hinted THEN tool_hint ELSE match_any(clean)
            permitted ==
                last.now - last.pre.last_idle_notification >= registry.cooldown_seconds
        IN  /\ Fired <=> (match_any(clean) # None /\ permitted)
            /\ Fired =>
                  /\ events[Len(events)].method = "pattern"
                  /\ events[Len(events)].tool_key = expected
                  /\ state.detected_tool = expected

\* C14 witness: with the hint "codex", a line that matches claude_code (first in the
\* registry) and codex fired an event for codex
C14_Witness ==
    /\ last.op = "feed_line"
    /\ tool_hint = "codex"
    /\ match_any(Clean(last.raw)) = "claude_code"
    /\ Fired
    /\ events[Len(events)].tool_key = "codex"

\* C15: match_any(line) returns the key of the first tool, in insertion order, that has
\* a pattern matching the line, and none iff no pattern of any tool matches; it always
\* returns (a key or none).
C15_FirstMatchInOrder ==
    last.op = "feed_line" =>
        LET line == Clean(last.raw)
            hits == {i \in 1..Len(Tools) : ToolMatches(Tools[i], line)}
            key == match_any(line)
        IN  /\ key \in ToolKeys \cup {None}
            /\ key = None <=> hits = {}
            /\ hits # {} =>
                  \E i \in hits : key = Tools[i].key /\ \A j \in hits : i <= j
            /\ (Fired /\ tool_hint \notin ToolKeys) =>
                  \E i \in hits :
                      /\ events[Len(events)].tool_key = Tools[i].key
                      /\ \A j \in hits : i <= j

\* C15 witness: with no usable hint, a line that two tools match fired an event for the
\* first of them
C15_Witness ==
    /\ last.op = "feed_line"
    /\ tool_hint \notin ToolKeys
    /\ Cardinality({i \in 1..Len(Tools) : ToolMatches(Tools[i], Clean(last.raw))}) = 2
    /\ Fired
    /\ events[Len(events)].tool_key = Tools[1].key

(***************************************************************************)
(* SpecRing: one Detector fed past the capacity of its output ring.  The   *)
(* lines are plain output, the empty line, and a marked line that is fed   *)
(* at most MaxMarked times, so that its place in the ring can be followed. *)
(***************************************************************************)
\* how many non-empty lines are fed in all
MaxRingFed == 52
\* how many of them are the marked line
MaxMarked == 1

MarkedLine == <<"m">>
RingLines == { <<"a">>, MarkedLine, <<" ">> }

InitRing ==
    /\ InitDetector
    /\ NoWatcher
    /\ NoHub
    /\ NoRun
    /\ registry = [timeout_seconds |-> 1, cooldown_seconds |-> 0]
    /\ tool_hint = None

\* detector.feed_line(raw), the ring followed up to and past its capacity
FeedRing ==
    /\ Len(ring_log) < MaxRingFed
    /\ \E raw \in RingLines :
          /\ raw = MarkedLine =>
                Cardinality({i \in 1..Len(ring_log) : ring_log[i] = MarkedLine}) < MaxMarked
          /\ Called("feed_line", raw, feed_line([state |-> state, events |-> events], raw, clock))

NextRing == FeedRing

SpecRing == InitRing /\ [][NextRing]_vars

\* C11: the ring holds at most 50 entries, and they are the most recent non-empty fed
\* lines in feed order: once more than 50 were fed, the oldest are gone (after 51, the
\* ring holds feeds 2..51).
C11_RingKeepsNewest ==
    LET n == Len(ring_log)
        gone == IF n > 50 THEN n - 50 ELSE 0
    IN  /\ Len(state.output_buffer) <= 50
        /\ Len(state.output_buffer) = n - gone
        /\ \A i \in 1..(n - gone) :
              state.output_buffer[i] = redact(Clean(ring_log[gone + i]))

\* C11 witness: 51 non-empty lines fed, the first of them the marked one: the ring is
\* full and the marked line is no longer in it
C11_Witness ==
    /\ Len(ring_log) = 51
    /\ ring_log[1] = MarkedLine
    /\ Len(state.output_buffer) = 50
    /\ \A i \in 1..50 : state.output_buffer[i] # MarkedLine

(***************************************************************************)
(* SpecRedact: one Detector whose redaction patterns are set before the    *)
(* first line is fed, as Watcher.__init__ does.                            *)
(***************************************************************************)
\* how many non-empty lines are fed
MaxRedactFed == 2

\* pattern lists given to set_redact_patterns
RedactPatternLists ==
    { <<>>,
      <<KeywordPattern>>,
      <<UpperPattern>>,
      <<KeywordPattern, UpperPattern>>,
      <<UpperPattern, KeywordPattern>> }

RedactLines ==
    { <<"a">>,
      <<"k", "=", "a">>,                                \* a keyword and its secret
      <<"Q">>,                                          \* an upper-case word
      <<ESC, "[", "3", "m", "a", " ", "k", "=", "Q", " ">>,
      <<">", " ">> }                                    \* a prompt

InitRedact ==
    /\ InitDetector
    /\ NoWatcher
    /\ NoHub
    /\ NoRun
    /\ registry = [timeout_seconds |-> 1, cooldown_seconds |-> 0]
    /\ tool_hint = None

\* detector.set_redact_patterns(patterns), before any output
SetRedactPatterns ==
    /\ ring_log = <<>>
    /\ \E pats \in RedactPatternLists : redact_patterns' = pats
    /\ UNCHANGED <<clock, detVars, histVars, thrVars, watchVars, ring_log, hubVars, runVars>>

\* detector.feed_line(raw) of a line that may hold secrets
FeedSecret ==
    /\ Len(ring_log) < MaxRedactFed
    /\ \E raw \in RedactLines :
          Called("feed_line", raw, feed_line([state |-> state, events |-> events], raw, clock))

NextRedact == SetRedactPatterns \/ FeedSecret

SpecRedact == InitRedact /\ [][NextRedact]_vars

\* some redaction pattern in force matches somewhere in the line
StillMatches(line) ==
    \E j \in 1..Len(redact_patterns) : RedactMatches(redact_patterns[j], line)

\* C12 as stated: every ring entry, and every line of recent handed to the callback, is
\* the ANSI-stripped line after all redaction patterns were applied, and no redaction
\* pattern matches any substring of it.
C12_Original ==
    /\ Len(state.output_buffer) = Len(ring_log)
    /\ \A i \in 1..Len(state.output_buffer) :
          /\ state.output_buffer[i] =
                 RedactWith(redact_patterns, Strip(strip_ansi(ring_log[i])))
          /\ ~StillMatches(state.output_buffer[i])
    /\ \A e \in 1..Len(events) : \A i \in 1..Len(events[e].recent) :
          ~StillMatches(events[e].recent[i])

(***************************************************************************)
(* SpecThreads: the detector as the watcher runs it.  feed_line is called  *)
(* on the PTY I/O thread (Watcher._handle_output) and check_timeout on the *)
(* ticker thread (Watcher._timeout_checker).  The detector takes no lock,  *)
(* so the threads interleave between any two reads or writes of            *)
(* Detector.state; each action below is one such access.                   *)
(***************************************************************************)
\* lines the child prints while the ticker runs
ThreadLines == { <<"a">>, <<">", " ">> }

\* thread t moves to label l with locals f
Goto(t, l, f) ==
    /\ pc' = [pc EXCEPT ![t] = l]
    /\ frame' = [frame EXCEPT ![t] = f]

Return(t) == Goto(t, "idle", NoFrame)

\* feed_line: now = time.time(); clean = strip_ansi(raw_line).strip(); if not clean: return
FeedEnter ==
    /\ pc["pty"] = "idle"
    /\ Len(events) < MaxEvents
    /\ Len(state.output_buffer) < MaxThreadFed
    /\ \E raw \in ThreadLines \cup {<<" ">>} :
          IF Clean(raw) = <<>>
          THEN Return("pty")
          ELSE Goto("pty", "feed_append", [NoFrame EXCEPT !.now = clock, !.clean = Clean(raw)])
    /\ UNCHANGED <<clock, detVars, thrFrame>>

\* feed_line: self.state.output_buffer.append(self._redact(clean))
FeedAppend ==
    /\ pc["pty"] = "feed_append"
    /\ state' = [state EXCEPT !.output_buffer = RingAppend(@, redact(frame["pty"].clean))]
    /\ Goto("pty", "feed_time", frame["pty"])
    /\ UNCHANGED <<clock, registry, tool_hint, events, thrFrame>>

\* feed_line: self.state.last_output_time = now
FeedTime ==
    /\ pc["pty"] = "feed_time"
    /\ state' = [state EXCEPT !.last_output_time = frame["pty"].now]
    /\ Goto("pty", "feed_flag", frame["pty"])
    /\ UNCHANGED <<clock, registry, tool_hint, events, thrFrame>>

\* feed_line: self.state.is_idle = False, then the pattern matching (locals and the
\* read-only registry), then the call of _trigger_idle on a match
FeedFlag ==
    /\ pc["pty"] = "feed_flag"
    /\ state' = [state EXCEPT !.is_idle = FALSE]
    /\ LET matched_tool == MatchedTool(frame["pty"].clean)
       IN  IF matched_tool # None
           THEN Goto("pty", "gate", [frame["pty"] EXCEPT !.method = "pattern",
                                                         !.tool_key = matched_tool])
           ELSE Return("pty")
    /\ UNCHANGED <<clock, registry, tool_hint, events, thrFrame>>

\* check_timeout: now = time.time()
CheckEnter ==
    /\ pc["ticker"] = "idle"
    /\ Len(events) < MaxEvents
    /\ Goto("ticker", "check_elapsed", [NoFrame EXCEPT !.now = clock])
    /\ UNCHANGED <<clock, detVars, thrFrame>>

\* check_timeout: elapsed = now - self.state.last_output_time; elapsed >= timeout_seconds
CheckElapsed ==
    /\ pc["ticker"] = "check_elapsed"
    /\ IF frame["ticker"].now - state.last_output_time >= registry.timeout_seconds
       THEN Goto("ticker", "check_flag", frame["ticker"])
       ELSE Return("ticker")
    /\ UNCHANGED <<clock, detVars, thrFrame>>

\* check_timeout: ... and not self.state.is_idle, then the call of _trigger_idle
CheckFlag ==
    /\ pc["ticker"] = "check_flag"
    /\ IF ~state.is_idle
       THEN Goto("ticker", "gate",
                 [frame["ticker"] EXCEPT !.method = "timeout",
                     !.tool_key = IF tool_hint # None THEN tool_hint ELSE "unknown"])
       ELSE Return("ticker")
    /\ UNCHANGED <<clock, detVars, thrFrame>>

\* _trigger_idle: if now - self.state.last_idle_notification < cooldown: return
Gate(t) ==
    /\ pc[t] = "gate"
    /\ IF InCooldown(state, frame[t].now)
       THEN Return(t)
       ELSE Goto(t, "set_idle", frame[t])
    /\ UNCHANGED <<clock, detVars, thrFrame>>

\* _trigger_idle: self.state.is_idle = True
SetIdle(t) ==
    /\ pc[t] = "set_idle"
    /\ state' = [state EXCEPT !.is_idle = TRUE]
    /\ Goto(t, "set_stamp", frame[t])
    /\ UNCHANGED <<clock, registry, tool_hint, events, thrFrame>>

\* _trigger_idle: self.state.last_idle_notification = now
SetStamp(t) ==
    /\ pc[t] = "set_stamp"
    /\ state' = [state EXCEPT !.last_idle_notification = frame[t].now]
    /\ Goto(t, "set_tool", frame[t])
    /\ UNCHANGED <<clock, registry, tool_hint, events, thrFrame>>

\* _trigger_idle: self.state.detected_tool = tool_key
SetTool(t) ==
    /\ pc[t] = "set_tool"
    /\ state' = [state EXCEPT !.detected_tool = frame[t].tool_key]
    /\ Goto(t, "read_secs", frame[t])
    /\ UNCHANGED <<clock, registry, tool_hint, events, thrFrame>>

\* _trigger_idle: idle_seconds = now - self.state.last_output_time
ReadSecs(t) ==
    /\ pc[t] = "read_secs"
    /\ Goto(t, "read_recent",
            [frame[t] EXCEPT !.idle_seconds = frame[t].now - state.last_output_time])
    /\ UNCHANGED <<clock, detVars, thrFrame>>

\* _trigger_idle: recent = list(self.state.output_buffer)[-10:]
ReadRecent(t) ==
    /\ pc[t] = "read_recent"
    /\ Goto(t, "invoke",
            [frame[t] EXCEPT !.recent = LastN(state.output_buffer, RecentLines)])
    /\ UNCHANGED <<clock, detVars, thrFrame>>

\* _trigger_idle: self.on_idle(method, tool_key, idle_seconds, recent)
Invoke(t) ==
    /\ pc[t] = "invoke"
    /\ events' = Append(events,
                    [method       |-> frame[t].method,
                     tool_key     |-> frame[t].tool_key,
                     idle_seconds |-> frame[t].idle_seconds,
                     recent       |-> frame[t].recent,
                     now          |-> frame[t].now,
                     at           |-> clock])
    /\ Return(t)
    /\ UNCHANGED <<clock, registry, tool_hint, state, thrFrame>>

TriggerStep ==
    \E t \in Threads :
        \/ Gate(t)
        \/ SetIdle(t)
        \/ SetStamp(t)
        \/ SetTool(t)
        \/ ReadSecs(t)
        \/ ReadRecent(t)
        \/ Invoke(t)

NextThreads ==
    \/ Tick
    \/ FeedEnter
    \/ FeedAppend
    \/ FeedTime
    \/ FeedFlag
    \/ CheckEnter
    \/ CheckElapsed
    \/ CheckFlag
    \/ TriggerStep

\* the watcher always gives its detector a tool key as the hint (watcher.py:42-66)
InitThreads == InitDetector /\ NoWatcher /\ NoHub /\ NoRun /\ tool_hint \in {"unknown", "codex"}

SpecThreads == InitThreads /\ [][NextThreads]_vars

\* C2 as stated: two trigger attempts never both invoke the callback within
\* cooldown_seconds of each other, whatever the interleaving of the two threads.
C2_Original ==
    \A i \in 1..Len(events) : \A j \in (i + 1)..Len(events) :
        events[j].at - events[i].at >= registry.cooldown_seconds

\* C7 as stated: last_idle_notification never decreases, whatever the interleaving.
C7_Original ==
    [][state'.last_idle_notification >= state.last_idle_notification]_vars

(***************************************************************************)
(* The watcher: _handle_output splits the child's output into lines and    *)
(* feeds the detector, whose on_idle callback is _handle_idle.             *)
(* A handler works on x = [d, w, h]: the detector pair, the Watcher        *)
(* record and the feed history.                                            *)
(***************************************************************************)
\* NotificationConfig.output_lines
OutputLines == 3

\* bytes of the child's output: ASCII characters stand for themselves; C3 A9 is the
\* two-byte UTF-8 encoding of one character
LeadByte == "C3"
ContByte == "A9"

\* data.decode("utf-8", errors="replace")
RECURSIVE Decode(_)
Decode(data) ==
    IF data = <<>> THEN <<>>
    ELSE IF Head(data) = LeadByte
    THEN IF Len(data) >= 2 /\ data[2] = ContByte
         THEN <<"e'">> \o Decode(Tail(Tail(data)))
         ELSE <<"U+FFFD">> \o Decode(Tail(data))
    ELSE IF Head(data) = ContByte THEN <<"U+FFFD">> \o Decode(Tail(data))
    ELSE <<Head(data)>> \o Decode(Tail(data))

\* Watcher._handle_idle, up to and including the dispatch to the sinks
handle_idle(w, ev, now) ==
    LET last_output == LastN(ev.recent, OutputLines)
        event == [tool_name        |-> get_tool_name(ev.tool_key),
                  last_output      |-> last_output,
                  idle_seconds     |-> ev.idle_seconds,
                  detection_method |-> ev.method,
                  timestamp        |-> now]
        w1 == [w EXCEPT !.status = "idle", !.last_output = last_output]
    IN  IF config.macos /\ config.only_when_away /\ frontmost_terminal
        THEN w1                                            \* return
        ELSE LET w2 == IF config.macos
                       THEN [w1 EXCEPT !.notified = Append(@, event)]
                       ELSE w1
             IN  IF on_idle_event
                 THEN [w2 EXCEPT !.pushed = Append(@, event)]
                 ELSE w2

\* one detector call made by the watcher, d2 its result: on_idle runs _handle_idle
AfterCall(x, d2, now) ==
    IF Len(d2.events) > Len(x.d.events)
    THEN [x EXCEPT !.d = d2, !.w = handle_idle(x.w, d2.events[Len(d2.events)], now)]
    ELSE [x EXCEPT !.d = d2]

\* self.detector.feed_line(line) from _handle_output, with its history
WatcherFeed(x, line, complete, now) ==
    LET x2 == AfterCall(x, feed_line(x.d, line, now), now)
        fired == Len(x2.d.events) > Len(x.d.events)
        again == fired /\ Clean(line) \in x.h.line_fired
    IN  [x2 EXCEPT !.h = [calls      |-> Append(x.h.calls, [line |-> line, complete |-> complete]),
                          line_fired |-> IF complete THEN {}
                                         ELSE IF fired THEN x.h.line_fired \cup {Clean(line)}
                                         ELSE x.h.line_fired,
                          refires    |-> IF again THEN x.h.refires + 1 ELSE x.h.refires]]

\* index of the first newline of s, 0 if none
FirstNL(s) ==
    IF \E i \in 1..Len(s) : s[i] = NL
    THEN CHOOSE i \in 1..Len(s) : s[i] = NL /\ \A j \in 1..(i - 1) : s[j] # NL
    ELSE 0

\* the while loop of _handle_output, then the feed of the trailing fragment
RECURSIVE FeedBuffered(_, _)
FeedBuffered(x, now) ==
    LET buf == x.w.line_buffer
        i == FirstNL(buf)
    IN  IF i > 0
        THEN FeedBuffered(
                 WatcherFeed([x EXCEPT !.w.line_buffer = From(buf, i + 1)],
                             SubSeq(buf, 1, i - 1), TRUE, now),
                 now)
        ELSE IF Strip(buf) # <<>>
             THEN WatcherFeed(x, buf, FALSE, now)
             ELSE x

\* Watcher._handle_output
handle_output(x, data, now) ==
    FeedBuffered([x EXCEPT !.w.line_buffer = @ \o Decode(data)], now)

\* the watcher and its detector as one record
Here == [d |-> [state |-> state, events |-> events], w |-> watcher, h |-> fed]

\* a handler turned Here into x
Becomes(x) ==
    /\ state' = x.d.state
    /\ events' = x.d.events
    /\ watcher' = x.w
    /\ fed' = x.h

(***************************************************************************)
(* SpecWatch: one Watcher; chunks of child output arrive, the ticker calls *)
(* check_timeout, time passes, the user changes the frontmost window.      *)
(***************************************************************************)
\* how long the line buffer is followed
MaxLineBuf == 3
\* how many feed_line calls of the watcher are followed
MaxCalls == 3

\* chunks read from the PTY master
Chunks ==
    { <<">", " ">>,      \* a prompt, no newline
      <<"a">>,
      <<NL>> }

InitWatch ==
    /\ clock = Epoch
    /\ registry \in [timeout_seconds : {MaxTimeout}, cooldown_seconds : 0..MaxCooldown]
    /\ tool_hint = "unknown"
    /\ state = DetectorState(Epoch)
    /\ events = <<>>
    /\ last = [op |-> "init", raw |-> <<>>, now |-> Epoch, pre |-> DetectorState(Epoch),
               n_events |-> 0, since |-> "none"]
    /\ since = "none"
    /\ pc = [t \in Threads |-> "idle"]
    /\ frame = [t \in Threads |-> NoFrame]
    /\ config \in [macos : BOOLEAN, only_when_away : BOOLEAN]
    /\ on_idle_event \in BOOLEAN
    /\ frontmost_terminal \in BOOLEAN
    /\ watcher = NewWatcher
    /\ fed = NoFeeds
    /\ stream = <<>>
    /\ pos = 0
    /\ redact_patterns = DefaultRedact
    /\ ring_log = <<>>
    /\ NoHub
    /\ NoRun

\* the PTY proxy calls on_output(data)
HandleOutput ==
    /\ \E data \in Chunks :
          LET x == handle_output(Here, data, clock)
          IN  /\ Len(x.w.line_buffer) <= MaxLineBuf
              /\ Len(x.h.calls) <= MaxCalls
              /\ Len(x.d.events) <= MaxEvents
              /\ Becomes(x)
    /\ UNCHANGED <<clock, registry, tool_hint, config, on_idle_event, frontmost_terminal,
                   stream, pos, watchFrame>>

\* the ticker calls detector.check_timeout()
TickerCheck ==
    /\ Len(events) < MaxEvents
    /\ Becomes(AfterCall(Here, check_timeout(Here.d, clock), clock))
    /\ UNCHANGED <<clock, registry, tool_hint, config, on_idle_event, frontmost_terminal,
                   stream, pos, watchFrame>>

\* the user brings another application to the front, or a terminal
FocusChange ==
    /\ frontmost_terminal' = ~frontmost_terminal
    /\ UNCHANGED <<clock, detVars, config, on_idle_event, watcher, fed, stream, pos,
                   watchFrame>>

NextWatch == Tick \/ HandleOutput \/ TickerCheck \/ FocusChange

SpecWatch == InitWatch /\ [][NextWatch]_vars

\* C8 as stated: when an external idle callback was given, every idle event the detector
\* emits is handed to it, whatever the desktop-notification gate decides.
C8_Original == on_idle_event => Len(watcher.pushed) = Len(events)

\* C9 as stated (shown for a positive cooldown): the repeated feeds of one trailing
\* prompt never emit a second event for it, whatever the time between the chunks.
C9_Original == registry.cooldown_seconds > 0 => fed.refires = 0

(***************************************************************************)
(* SpecChunks: the child writes the bytes of stream; the PTY proxy reads   *)
(* them in chunks of any size and hands each to _handle_output.            *)
(***************************************************************************)
\* the longest output stream tried
MaxStream == 4
\* the longest chunk one read returns
MaxChunk == 3

StreamBytes == {"a", NL, LeadByte, ContByte}

InitChunks ==
    /\ clock = Epoch
    /\ registry = [timeout_seconds |-> MaxTimeout, cooldown_seconds |-> 0]
    /\ tool_hint = "unknown"
    /\ state = DetectorState(Epoch)
    /\ events = <<>>
    /\ last = [op |-> "init", raw |-> <<>>, now |-> Epoch, pre |-> DetectorState(Epoch),
               n_events |-> 0, since |-> "none"]
    /\ since = "none"
    /\ pc = [t \in Threads |-> "idle"]
    /\ frame = [t \in Threads |-> NoFrame]
    /\ config = [macos |-> FALSE, only_when_away |-> FALSE]
    /\ on_idle_event = FALSE
    /\ frontmost_terminal = FALSE
    /\ watcher = NewWatcher
    /\ fed = NoFeeds
    /\ stream \in UNION {[1..n -> StreamBytes] : n \in 1..MaxStream}
    /\ pos = 0
    /\ redact_patterns = DefaultRedact
    /\ ring_log = <<>>
    /\ NoHub
    /\ NoRun

\* os.read on the master returns the next k bytes; on_output(data)
Deliver ==
    /\ \E k \in 1..MaxChunk :
          /\ pos + k <= Len(stream)
          /\ pos' = pos + k
          /\ Becomes(handle_output(Here, SubSeq(stream, pos + 1, pos + k), clock))
    /\ UNCHANGED <<clock, registry, tool_hint, config, on_idle_event, frontmost_terminal,
                   stream, watchFrame>>

NextChunks == Deliver

SpecChunks == InitChunks /\ [][NextChunks]_vars

\* text.split("\n") without its last element: the newline-terminated lines of text
RECURSIVE CompletedLines(_)
CompletedLines(text) ==
    LET i == FirstNL(text)
    IN  IF i = 0 THEN <<>>
        ELSE <<SubSeq(text, 1, i - 1)>> \o CompletedLines(From(text, i + 1))

RECURSIVE DropEmpty(_)
DropEmpty(lines) ==
    IF lines = <<>> THEN <<>>
    ELSE IF Head(lines) = <<>> THEN DropEmpty(Tail(lines))
    ELSE <<Head(lines)>> \o DropEmpty(Tail(lines))

\* the completed lines _handle_output passed to feed_line, in order
RECURSIVE CompletedFeeds(_)
CompletedFeeds(calls) ==
    IF calls = <<>> THEN <<>>
    ELSE IF Head(calls).complete THEN <<Head(calls).line>> \o CompletedFeeds(Tail(calls))
    ELSE CompletedFeeds(Tail(calls))

\* C10 as stated: however the stream is cut into chunks, once it is all delivered the
\* completed lines fed to the detector are the newline-terminated lines of the stream,
\* empty lines dropped.
C10_Original ==
    pos = Len(stream) =>
        DropEmpty(CompletedFeeds(fed.calls)) = DropEmpty(CompletedLines(Decode(stream)))

(***************************************************************************)
(* The hub (jigai/server).  Its handlers are coroutines of one event loop: *)
(* a handler runs alone from one await to the next, and the others run     *)
(* while it is suspended.  The awaits are the wait for the manager's lock  *)
(* when it is taken, each ws.send_text of a broadcast, and the accept,     *)
(* sends and receives of a /ws endpoint.  An event is the record of one    *)
(* accepted POST /api/events: its arrival number and its session id.       *)
(***************************************************************************)
\* app.MAX_HISTORY
MAX_HISTORY == 100
\* list_events(limit: int = 20)
DefaultLimit == 20

\* x in s
InSeq(x, s) == \E i \in 1..Len(s) : s[i] = x

\* list.remove(x): the first x goes
RECURSIVE Remove(_, _)
Remove(list, x) ==
    IF list = <<>> THEN <<>>
    ELSE IF Head(list) = x THEN Tail(list)
    ELSE <<Head(list)>> \o Remove(Tail(list), x)

\* a broadcast that leaves its dead subscribers in the list
Prune_keep_dead(list, dead) == list

\* for ws in dead: self.active_connections.remove(ws)
RECURSIVE Prune(_, _)
Prune(list, dead) ==
    IF dead = <<>> THEN list
    ELSE Prune(Remove(list, Head(dead)), Tail(dead))

\* ConnectionManager.client_count
client_count == Len(active_connections)

\* a history that, once full, drops the event just appended
Remember_drop_newest(history, ev) ==
    IF Len(history) + 1 > MAX_HISTORY THEN history ELSE Append(history, ev)

\* event_history.append(event_data); if len(event_history) > MAX_HISTORY: pop(0)
Remember(history, ev) ==
    LET h == Append(history, ev)
    IN  IF Len(h) > MAX_HISTORY THEN Tail(h) ELSE h

\* a broadcast that also gives up when a single subscriber is connected
NoSubscribers_or_one(list) == Len(list) <= 1

\* broadcast: if not self.active_connections: return
NoSubscribers(list) == list = <<>>

\* whether ws.send_text can raise: never on an open socket; on a socket the client
\* closed it raises, or the frame goes into a buffer nobody reads
SendOutcomes(ws) == IF sockets[ws].link = "open" THEN {FALSE} ELSE {TRUE, FALSE}

\* a broadcast whose first failing send ends the loop
AfterSend_abort(f, ws, raised) ==
    [f EXCEPT !.sent = Append(@, [ws |-> ws, ok |-> ~raised]),
              !.dead = IF raised THEN Append(@, ws) ELSE @,
              !.i = IF raised THEN Len(f.start) + 1 ELSE @ + 1]

\* one turn of broadcast's loop: try: await ws.send_text(message); except: dead.append(ws)
AfterSend(f, ws, raised) ==
    [f EXCEPT !.sent = Append(@, [ws |-> ws, ok |-> ~raised]),
              !.dead = IF raised THEN Append(@, ws) ELSE @,
              !.i = @ + 1]

\* the fields of the body of POST /api/events (IdleEventRequest)
BodyKeys ==
    {"session_id", "tool_name", "working_dir", "last_output", "idle_seconds",
     "detection_method"}

\* receive_event: event_data, the dict built for the n-th accepted event; keys are the
\* keys the dict has
EventData(n, sid) ==
    [type |-> "idle_detected", seq |-> n, session_id |-> sid,
     keys |-> BodyKeys \cup {"type", "timestamp"}]

\* register_session: the dict it gives to broadcast
SessionStarted(sid) ==
    [type |-> "session_started", seq |-> 0, session_id |-> sid,
     keys |-> {"type", "session_id", "tool_name", "working_dir"}]

\* unregister_session: the dict it gives to broadcast
SessionStopped(sid) ==
    [type |-> "session_stopped", seq |-> 0, session_id |-> sid,
     keys |-> {"type", "session_id"}]

\* broadcast: data["server_time"] = ...; the dict written is the caller's
Stamped(data) == [data EXCEPT !.keys = @ \cup {"server_time"}]

\* the caller's dict once broadcast has run to its first await or returned
AfterBroadcast(data, list) == IF NoSubscribers(list) THEN data ELSE Stamped(data)

\* the response of receive_event: {"status": "ok", "clients_notified": client_count}
Posted(clients) == [NoResponse EXCEPT !.op = "receive_event", !.clients = clients]

\* what the handler that broadcast data returns: receive_event the count of clients,
\* register_session and unregister_session {"status": "ok"}
Returned(data, clients) ==
    IF data.type = "idle_detected" THEN Posted(clients)
    ELSE IF data.type = "session_started" THEN [NoResponse EXCEPT !.op = "register_session"]
    ELSE [NoResponse EXCEPT !.op = "unregister_session"]

\* a lock that a coroutine takes at once whenever it is unlocked, waiters or not
LockFree_barging == lock = None

\* asyncio.Lock.acquire, the fast path: not locked and nobody waiting
LockFree == lock = None /\ waiters = <<>>

\* asyncio.Lock.acquire, after the wait: release woke the first waiter, c
Woken(c) == lock = None /\ waiters # <<>> /\ Head(waiters) = c

\* the frame a client reads for a dict given to broadcast
Frame(data) ==
    [type |-> data.type, seq |-> data.seq, session_id |-> data.session_id, listed |-> {}]

\* websocket_endpoint: the "connected" frame, with list(sessions.values())
Connected(listed) ==
    [type |-> "connected", seq |-> 0, session_id |-> None, listed |-> listed]

\* the end of a broadcast by p with locals f: the dead are removed, the lock is released,
\* and the handler returns
Finish(p, f) ==
    /\ active_connections' = Prune(active_connections, f.dead)
    /\ lock' = None
    /\ tasks' = [tasks EXCEPT ![p] = NoTask]
    /\ cast' = [by |-> p, event |-> f.event, begun |-> f.begun, start |-> f.start,
                sent |-> f.sent, failed |-> f.dead, after |-> active_connections',
                open |-> {s \in Sockets : sockets[s].link = "open"}]
    /\ response' = Returned(f.event, Len(active_connections'))

\* await manager.broadcast(data) in handler p, up to its first await: it returns at once
\* when nobody is connected, else it stamps the dict and takes the lock, or joins the
\* lock's waiters
Broadcast(p, data) ==
    LET f == [NoTask EXCEPT !.event = AfterBroadcast(data, active_connections),
                            !.begun = active_connections]
    IN  IF NoSubscribers(active_connections)
        THEN /\ cast' = [NoCast EXCEPT !.by = p, !.event = data,
                             !.begun = active_connections,
                             !.after = active_connections,
                             !.open = {s \in Sockets : sockets[s].link = "open"}]
             /\ response' = Returned(data, client_count)
             /\ UNCHANGED <<tasks, lock, waiters>>
        ELSE IF LockFree
        THEN /\ lock' = p
             /\ tasks' = [tasks EXCEPT ![p] =
                             [f EXCEPT !.pc = "send", !.start = active_connections,
                                       !.i = 1]]
             /\ UNCHANGED <<waiters, cast, response>>
        ELSE /\ tasks' = [tasks EXCEPT ![p] = [f EXCEPT !.pc = "lock"]]
             /\ waiters' = Append(waiters, p)
             /\ UNCHANGED <<lock, cast, response>>

\* the n-th request the hub took, of a kind: "event" (POST /api/events), "register"
\* (POST /api/sessions) or "delete" (DELETE /api/sessions/{id})
Request(kind, n) == [kind |-> kind, n |-> n]

\* POST /api/events for a session of ids, up to the first await of the broadcast: the
\* session map and the history are written; the history holds the dict that the
\* broadcast is given
ReceiveEvent(p, max, ids) ==
    /\ tasks[p].pc = "idle"
    /\ arrivals < max
    /\ \E sid \in ids :
          LET ev == EventData(arrivals + 1, sid)
          IN  /\ sessions' = [sessions EXCEPT ![sid] = "idle"]
              /\ event_history' =
                    Remember(event_history, AfterBroadcast(ev, active_connections))
              /\ arrivals' = arrivals + 1
              /\ last_request' = [last_request EXCEPT ![sid] = Request("event", served + 1)]
              /\ served' = served + 1
              /\ Broadcast(p, ev)
    /\ UNCHANGED <<active_connections, sockets, inbox, hubFrame>>

\* a handler that forgets the session only when it is active
Unregistered_only_active(map, sid) ==
    IF map[sid] = "active" THEN [map EXCEPT ![sid] = "absent"] ELSE map

\* unregister_session: if session_id in sessions: del sessions[session_id]
Unregistered(map, sid) ==
    IF map[sid] # "absent" THEN [map EXCEPT ![sid] = "absent"] ELSE map

\* POST /api/sessions, up to the first await of the broadcast
RegisterSession(p, max) ==
    /\ tasks[p].pc = "idle"
    /\ served < max
    /\ \E sid \in SessionIds :
          /\ sessions' = [sessions EXCEPT ![sid] = "active"]
          /\ last_request' = [last_request EXCEPT ![sid] = Request("register", served + 1)]
          /\ served' = served + 1
          /\ Broadcast(p, SessionStarted(sid))
    /\ UNCHANGED <<active_connections, sockets, event_history, arrivals, inbox, hubFrame>>

\* DELETE /api/sessions/{session_id}, up to the first await of the broadcast
UnregisterSession(p, max) ==
    /\ tasks[p].pc = "idle"
    /\ served < max
    /\ \E sid \in SessionIds :
          /\ sessions' = Unregistered(sessions, sid)
          /\ last_request' = [last_request EXCEPT ![sid] = Request("delete", served + 1)]
          /\ served' = served + 1
          /\ Broadcast(p, SessionStopped(sid))
    /\ UNCHANGED <<active_connections, sockets, event_history, arrivals, inbox, hubFrame>>

\* broadcast: async with self._lock, after a wait
BroadcastAcquire(p) ==
    /\ tasks[p].pc = "lock"
    /\ Woken(p)
    /\ waiters' = Tail(waiters)
    /\ IF active_connections = <<>>
       THEN /\ Finish(p, tasks[p])
            /\ UNCHANGED <<sockets, event_history, sessions, arrivals>>
       ELSE /\ lock' = p
            /\ tasks' = [tasks EXCEPT ![p] =
                            [@ EXCEPT !.pc = "send", !.start = active_connections, !.i = 1]]
            /\ UNCHANGED <<active_connections, sockets, event_history, sessions, arrivals,
                           cast, response>>
    /\ UNCHANGED <<inbox, reqVars, hubFrame>>

\* broadcast: one await ws.send_text(message) of the loop; after the last one, the prune
BroadcastSend(p) ==
    /\ tasks[p].pc = "send"
    /\ LET ws == active_connections[tasks[p].i]
       IN  \E raised \in SendOutcomes(ws) :
              LET f == AfterSend(tasks[p], ws, raised)
              IN  /\ inbox' = IF ~raised /\ sockets[ws].link = "open"
                               THEN [inbox EXCEPT ![ws] = Append(@, Frame(tasks[p].event))]
                               ELSE inbox
                  /\ IF f.i > Len(active_connections)
                     THEN Finish(p, f)
                     ELSE /\ tasks' = [tasks EXCEPT ![p] = f]
                          /\ UNCHANGED <<active_connections, lock, cast, response>>
    /\ UNCHANGED <<waiters, sockets, event_history, sessions, arrivals, reqVars, hubFrame>>

\* a client opens /ws: websocket_endpoint starts, manager.connect awaits websocket.accept()
WsAccept(s) ==
    /\ sockets[s] = NoSocket
    /\ sockets' = [sockets EXCEPT ![s] = [link |-> "open", at |-> "register"]]
    /\ UNCHANGED <<active_connections, lock, waiters, tasks, event_history, sessions,
                   arrivals, cast, response, inbox, reqVars, hubFrame>>

\* manager.connect: async with self._lock: self.active_connections.append(websocket);
\* the coroutine takes the lock at once or joins its waiters. With the lock it appends,
\* releases, returns to websocket_endpoint, builds the "connected" frame from
\* list(sessions.values()) and calls send_json, all before its next await. A socket is one
\* ordered stream: the frame of a send begun first is read first, so the frame takes its
\* place in the inbox here; WsHello is the end of that send
WsRegister(s) ==
    /\ IF \/ sockets[s].at = "register" /\ LockFree
          \/ sockets[s].at = "register_lock" /\ Woken(s)
       THEN /\ active_connections' = Append(active_connections, s)
            /\ waiters' = IF sockets[s].at = "register_lock" THEN Tail(waiters) ELSE waiters
            /\ sockets' = [sockets EXCEPT ![s].at = "hello"]
            /\ inbox' = IF sockets[s].link = "open"
                        THEN [inbox EXCEPT ![s] =
                                 Append(@, Connected({sid \in SessionIds :
                                                         sessions[sid] # "absent"}))]
                        ELSE inbox
       ELSE /\ sockets[s].at = "register"
            /\ waiters' = Append(waiters, s)
            /\ sockets' = [sockets EXCEPT ![s].at = "register_lock"]
            /\ UNCHANGED <<active_connections, inbox>>
    /\ UNCHANGED <<lock, tasks, event_history, sessions, arrivals, cast, response,
                   reqVars, hubFrame>>

\* websocket_endpoint: send_json of the "connected" frame; when it raises, the finally
\* clause is next
WsHello(s) ==
    /\ sockets[s].at = "hello"
    /\ \E raised \in SendOutcomes(s) :
          sockets' = [sockets EXCEPT ![s].at = IF raised THEN "unregister" ELSE "serve"]
    /\ UNCHANGED <<active_connections, lock, waiters, tasks, event_history, sessions,
                   arrivals, cast, response, inbox, reqVars, hubFrame>>

\* websocket_endpoint: receive_text raises WebSocketDisconnect once the client has closed
WsLeave(s) ==
    /\ sockets[s].at = "serve"
    /\ sockets[s].link = "closed"
    /\ sockets' = [sockets EXCEPT ![s].at = "unregister"]
    /\ UNCHANGED <<active_connections, lock, waiters, tasks, event_history, sessions,
                   arrivals, cast, response, inbox, reqVars, hubFrame>>

\* manager.disconnect: async with self._lock: remove the socket if it is in the list
WsUnregister(s) ==
    /\ IF \/ sockets[s].at = "unregister" /\ LockFree
          \/ sockets[s].at = "unregister_lock" /\ Woken(s)
       THEN /\ active_connections' =
                  IF InSeq(s, active_connections) THEN Remove(active_connections, s)
                  ELSE active_connections
            /\ waiters' = IF sockets[s].at = "unregister_lock" THEN Tail(waiters) ELSE waiters
            /\ sockets' = [sockets EXCEPT ![s].at = "done"]
       ELSE /\ sockets[s].at = "unregister"
            /\ waiters' = Append(waiters, s)
            /\ sockets' = [sockets EXCEPT ![s].at = "unregister_lock"]
            /\ UNCHANGED active_connections
    /\ UNCHANGED <<lock, tasks, event_history, sessions, arrivals, cast, response, inbox,
                   reqVars, hubFrame>>

\* the client closes its end (or its network goes away): it reads no more frames
ClientClose(s) ==
    /\ sockets[s].link = "open"
    /\ sockets' = [sockets EXCEPT ![s].link = "closed"]
    /\ inbox' = [inbox EXCEPT ![s] = <<>>]
    /\ UNCHANGED <<active_connections, lock, waiters, tasks, event_history, sessions,
                   arrivals, cast, response, reqVars, hubFrame>>

\* GET /api/health
Health ==
    /\ response' = [NoResponse EXCEPT !.op = "health", !.clients = client_count]
    /\ UNCHANGED <<active_connections, lock, waiters, sockets, tasks, event_history,
                   sessions, arrivals, cast, inbox, reqVars, hubFrame>>

\* GET /api/events?limit=N
ListEvents(limit) ==
    /\ response' = [NoResponse EXCEPT !.op = "list_events", !.limit = limit,
                                      !.events = LastN(event_history, limit),
                                      !.history = event_history]
    /\ UNCHANGED <<active_connections, lock, waiters, sockets, tasks, event_history,
                   sessions, arrivals, cast, inbox, reqVars, hubFrame>>

(***************************************************************************)
(* SpecHub: two subscribers come and go while two POST handlers and the    *)
(* GET handlers run.                                                       *)
(***************************************************************************)
\* how many events are posted
MaxPosts == 2

\* the limits asked of GET /api/events
Limits == {0, 1, DefaultLimit}

\* no watcher is modelled next to the hub: its detector stays as constructed
InitHub ==
    /\ InitDetector
    /\ NoWatcher
    /\ NoHub
    /\ NoRun
    /\ registry = [timeout_seconds |-> 1, cooldown_seconds |-> 0]
    /\ tool_hint = None

NextHub ==
    \/ \E p \in Posts : ReceiveEvent(p, MaxPosts, {"sess"})
    \/ \E p \in Posts : BroadcastAcquire(p)
    \/ \E p \in Posts : BroadcastSend(p)
    \/ \E s \in Sockets : WsAccept(s)
    \/ \E s \in Sockets : WsRegister(s)
    \/ \E s \in Sockets : WsHello(s)
    \/ \E s \in Sockets : WsLeave(s)
    \/ \E s \in Sockets : WsUnregister(s)
    \/ \E s \in Sockets : ClientClose(s)
    \/ Health
    \/ \E limit \in Limits : ListEvents(limit)

SpecHub == InitHub /\ [][NextHub]_vars

(***************************************************************************)
(* SpecHistory: events are posted past the capacity of the history; one    *)
(* subscriber connects when the history is about to fill and stays, so     *)
(* that handlers are suspended in their broadcasts while the last events   *)
(* arrive.                                                                 *)
(***************************************************************************)
\* how many events are posted
MaxHistoryPosts == 101

NextHistory ==
    \/ \E p \in Posts : ReceiveEvent(p, MaxHistoryPosts, {"sess"})
    \/ \E p \in Posts : BroadcastAcquire(p)
    \/ \E p \in Posts : BroadcastSend(p)
    \/ arrivals >= MaxHistoryPosts - 3 /\ WsAccept("s1")
    \/ WsRegister("s1")
    \/ WsHello("s1")

SpecHistory == InitHub /\ [][NextHistory]_vars

(***************************************************************************)
(* Properties of the hub.  cast is the last broadcast that ended: the list *)
(* when broadcast() was called (begun), the list when its loop started     *)
(* (start), its sends in order, the subscribers whose send raised, the     *)
(* list it left, and the sockets still open at that moment.                *)
(***************************************************************************)
\* the sockets of a sequence of sends
SentTo(sent) == [i \in 1..Len(sent) |-> sent[i].ws]

\* C16: a subscriber whose send raises does not abort or shorten the broadcast: every
\* subscriber registered when the loop starts is sent the frame, in list order.
C16_FailedSendDoesNotShorten ==
    /\ cast.by # None => SentTo(cast.sent) = cast.start
    /\ \A p \in Posts :
          tasks[p].pc = "send" =>
              SentTo(tasks[p].sent) = SubSeq(tasks[p].start, 1, tasks[p].i - 1)

\* C16 witness: a broadcast ended in which a send raised and a later subscriber of the
\* list took the frame
C16_Witness ==
    /\ cast.by # None
    /\ \E i \in 1..Len(cast.sent) : \E j \in (i + 1)..Len(cast.sent) :
          ~cast.sent[i].ok /\ cast.sent[j].ok

\* C17: after a broadcast the subscriber list is the list at the start of the iteration
\* minus the subscribers whose send failed, so client_count drops by their number; and
\* while a broadcast iterates, it holds the lock and the list does not change.
C17_ListMinusDead ==
    /\ cast.by # None =>
          /\ cast.after = SelectSeq(cast.start, LAMBDA s : ~InSeq(s, cast.failed))
          /\ Len(cast.after) = Len(cast.start) - Len(cast.failed)
          /\ \A s \in Sockets :
                InSeq(s, cast.failed) <=>
                    \E i \in 1..Len(cast.sent) : cast.sent[i].ws = s /\ ~cast.sent[i].ok
    /\ \A p \in Posts :
          tasks[p].pc = "send" => lock = p /\ active_connections = tasks[p].start

\* C17 witness: a broadcast over two subscribers ended, one send failed, one is left
C17_Witness ==
    /\ cast.by # None
    /\ Len(cast.start) = 2
    /\ Len(cast.failed) = 1
    /\ Len(cast.after) = 1
    /\ active_connections = cast.after
    /\ response = [NoResponse EXCEPT !.op = "health", !.clients = 1]

\* C18: a subscriber that was in the list when a broadcast was called and is still
\* connected when it ends was sent that broadcast's frame.
C18_StayingSubscriberIsSent ==
    cast.by # None =>
        \A s \in Sockets :
            (InSeq(s, cast.begun) /\ s \in cast.open) =>
                \E i \in 1..Len(cast.sent) : cast.sent[i].ws = s /\ cast.sent[i].ok

\* C18 witness: a broadcast that had to wait for the lock behind another one, the list
\* changing in between, ended having sent its frame to a subscriber that stayed
C18_Witness ==
    /\ cast.by # None
    /\ cast.begun # cast.start
    /\ \E s \in cast.open : InSeq(s, cast.begun) /\ InSeq(s, SentTo(cast.sent))

\* C19: the event history holds at most 100 entries, the most recent accepted events in
\* order of arrival; the oldest is dropped on overflow.
C19_HistoryKeepsNewest ==
    LET gone == IF arrivals > 100 THEN arrivals - 100 ELSE 0
    IN  /\ Len(event_history) <= 100
        /\ Len(event_history) = arrivals - gone
        /\ \A i \in 1..(arrivals - gone) : event_history[i].seq = gone + i

\* C19 witness: the 101st event arrived while the handler of an earlier one was still
\* broadcasting: the history is full and starts at the second event
C19_Witness ==
    /\ arrivals = 101
    /\ Len(event_history) = 100
    /\ event_history[1].seq = 2
    /\ event_history[100].seq = 101
    /\ \E p \in Posts : tasks[p].pc = "lock"

\* C20 as stated: GET /api/events?limit=N returns exactly the last min(N, size) events of
\* the history, in history order, for every N >= 0; limit=0 returns no events.
C20_Original ==
    (response.op = "list_events" /\ response.limit >= 0) =>
        LET size == Len(response.history)
            k == IF response.limit < size THEN response.limit ELSE size
        IN  response.events = SubSeq(response.history, size - k + 1, size)

\* C21 as stated: each record read back by GET /api/events has the fields of the POSTed
\* body plus the type and a timestamp, and nothing else, whether or not subscribers were
\* connected; and the records come back in the order the events were posted.
C21_Original ==
    response.op = "list_events" =>
        /\ \A i \in 1..Len(response.events) :
              /\ response.events[i].type = "idle_detected"
              /\ response.events[i].keys = BodyKeys \cup {"type", "timestamp"}
        /\ \A i \in 1..Len(response.history) : response.history[i].seq = i

(***************************************************************************)
(* SpecSessions: sessions are registered, report events and are removed,   *)
(* in any order, while one subscriber comes and goes.                      *)
(***************************************************************************)
\* how many session and event requests are made
MaxRequests == 3

NextSessions ==
    \/ \E p \in Posts : served < MaxRequests /\ ReceiveEvent(p, MaxRequests, SessionIds)
    \/ \E p \in Posts : RegisterSession(p, MaxRequests)
    \/ \E p \in Posts : UnregisterSession(p, MaxRequests)
    \/ \E p \in Posts : BroadcastAcquire(p)
    \/ \E p \in Posts : BroadcastSend(p)
    \/ WsAccept("s1")
    \/ WsRegister("s1")
    \/ WsHello("s1")
    \/ ClientClose("s1")

SpecSessions == InitHub /\ [][NextSessions]_vars

\* the session map agrees with the last request taken for each id
SessionsFollowRequests ==
    \A sid \in SessionIds :
        /\ sessions[sid] = "absent" <=> last_request[sid].kind \in {"none", "delete"}
        /\ last_request[sid].kind = "register" => sessions[sid] = "active"
        /\ last_request[sid].kind = "event" => sessions[sid] = "idle"

\* C22: the session map has a record for an id exactly when the most recent request for
\* that id was not a DELETE, with status "active" after a registration and "idle" after an
\* event; a DELETE of an unknown id changes no record, still broadcasts session_stopped
\* and returns ok.
C22_SessionsFollowRequests ==
    [][ /\ SessionsFollowRequests'
        /\ \A sid \in SessionIds :
              (/\ served' = served + 1
               /\ last_request'[sid] = Request("delete", served')
               /\ sessions[sid] = "absent") =>
                  /\ sessions' = sessions
                  /\ \E p \in Posts :
                        \/ /\ tasks'[p].pc \in {"lock", "send"}
                           /\ tasks[p].pc = "idle"
                           /\ tasks'[p].event = Stamped(SessionStopped(sid))
                        \/ /\ cast' = [NoCast EXCEPT !.by = p, !.event = SessionStopped(sid),
                                              !.open = cast'.open]
                           /\ response'.op = "unregister_session"
        /\ \A p \in Posts :
              (/\ tasks[p].pc # "idle"
               /\ tasks'[p].pc = "idle"
               /\ tasks[p].event.type = "session_stopped") =>
                  /\ response'.op = "unregister_session"
                  /\ cast'.event = tasks[p].event
      ]_vars

\* C22 witness: the first request was a DELETE of an id the hub did not know; its
\* session_stopped frame went to a subscriber and it returned ok, while an event of
\* another session arrived: that session is idle, the unknown one still has no record
C22_Witness ==
    /\ last_request["other"] = Request("delete", 1)
    /\ last_request["sess"].kind = "event"
    /\ sessions = [sid \in SessionIds |-> IF sid = "sess" THEN "idle" ELSE "absent"]
    /\ response.op = "unregister_session"
    /\ cast.event = Stamped(SessionStopped("other"))
    /\ Len(cast.sent) = 1

(***************************************************************************)
(* The macOS notifier (jigai/notifier/macos.py): _sanitize prepares a text *)
(* for an AppleScript string literal.                                      *)
(***************************************************************************)
Backslash == "\\"
Quote == "\""
\* the three characters of " ⏎ "
Glyph == <<" ", "U+23CE", " ">>

\* str.replace(c, r) for a one-character c
RECURSIVE Replace(_, _, _)
Replace(s, c, r) ==
    IF s = <<>> THEN <<>>
    ELSE (IF Head(s) = c THEN r ELSE <<Head(s)>>) \o Replace(Tail(s), c, r)

\* a _sanitize that escapes the quotes before the backslashes
_sanitize_quotes_first(t) ==
    Replace(Replace(Replace(t, Quote, <<Backslash, Quote>>),
                    Backslash, <<Backslash, Backslash>>), NL, Glyph)

\* text.replace("\\", "\\\\").replace('"', '\\"').replace("\n", " ⏎ ")
_sanitize(t) ==
    Replace(Replace(Replace(t, Backslash, <<Backslash, Backslash>>),
                    Quote, <<Backslash, Quote>>), NL, Glyph)

(***************************************************************************)
(* SpecSanitize: _sanitize is applied once to a short text of backslashes, *)
(* quotes, newlines and letters.                                           *)
(***************************************************************************)
\* the longest text sanitized
MaxText == 4

SanitizeChars == {Backslash, Quote, NL, "a"}

InitSanitize ==
    /\ InitDetector
    /\ NoWatcher
    /\ NoHub
    /\ registry = [timeout_seconds |-> 1, cooldown_seconds |-> 0]
    /\ tool_hint = None
    /\ raw_text \in UNION {[1..n -> SanitizeChars] : n \in 0..MaxText}
    /\ sanitized = [called |-> FALSE, result |-> <<>>]
    /\ NoClient
    /\ NoProxy

\* notify_macos: safe = _sanitize(text)
Sanitize ==
    /\ ~sanitized.called
    /\ sanitized' = [called |-> TRUE, result |-> _sanitize(raw_text)]
    /\ UNCHANGED <<clock, detVars, histVars, thrVars, watchVars, redactVars, hubVars,
                   raw_text, hub_status, client_log, procVars>>

NextSanitize == Sanitize

SpecSanitize == InitSanitize /\ [][NextSanitize]_vars

\* how many backslashes stand right before position i of s
RECURSIVE BackslashesBefore(_, _)
BackslashesBefore(s, i) ==
    IF i > 1 /\ s[i - 1] = Backslash THEN 1 + BackslashesBefore(s, i - 1) ELSE 0

\* what one character of the text becomes
Escaped(c) ==
    IF c = Backslash THEN <<Backslash, Backslash>>
    ELSE IF c = Quote THEN <<Backslash, Quote>>
    ELSE IF c = NL THEN Glyph
    ELSE <<c>>

\* the text with each of its characters escaped
RECURSIVE EscapedText(_)
EscapedText(t) == IF t = <<>> THEN <<>> ELSE Escaped(Head(t)) \o EscapedText(Tail(t))

\* C30: one application of _sanitize escapes backslashes first, then double quotes, then
\* replaces each newline with a visible glyph: a quote becomes backslash-quote,
\* backslash-quote becomes three backslashes and a quote, a backslash is doubled; every
\* double quote of the result is preceded by an odd number of backslashes and no raw
\* newline remains.
C30_SanitizeEscapes ==
    sanitized.called =>
        /\ sanitized.result = EscapedText(raw_text)
        /\ \A i \in 1..Len(sanitized.result) :
              /\ sanitized.result[i] = Quote => BackslashesBefore(sanitized.result, i) % 2 = 1
              /\ sanitized.result[i] # NL
        /\ raw_text = <<Quote>> => sanitized.result = <<Backslash, Quote>>
        /\ raw_text = <<Backslash, Quote>> =>
              sanitized.result = <<Backslash, Backslash, Backslash, Quote>>
        /\ raw_text = <<Backslash>> => sanitized.result = <<Backslash, Backslash>>

\* C30 witness: a text with an escaped quote and a newline was sanitized
C30_Witness ==
    /\ sanitized.called
    /\ raw_text = <<Backslash, Quote, NL>>
    /\ sanitized.result = <<Backslash, Backslash, Backslash, Quote>> \o Glyph

(***************************************************************************)
(* The hub client (jigai/server/client.py).  Each operation is one urlopen *)
(* inside try/except; what urlopen does depends on what it meets at the    *)
(* hub's address.                                                          *)
(***************************************************************************)
\* ServerClient's operations
ClientOps == {"push_event", "register_session", "unregister_session", "is_server_running"}

\* what a request can meet: a hub that answers 200, no host or service at the address,
\* a port that refuses the connection, a peer that does not answer within the timeout,
\* a hub that answers with an error status
HubStatuses == {"up", "absent", "refusing", "silent", "failing"}

\* the exception classes urlopen raises here, each with its base class
BaseOf ==
    [HTTPError |-> "URLError", URLError |-> "OSError", TimeoutError |-> "OSError",
     OSError |-> "Exception", Exception |-> "BaseException"]

\* issubclass(c, base)
RECURSIVE IsSubclass(_, _)
IsSubclass(c, base) ==
    \/ c = base
    \/ c \in DOMAIN BaseOf /\ IsSubclass(BaseOf[c], base)

\* what urlopen does: the status of the response it returns, or the exception it raises
\* (a refused or failed connection is wrapped in URLError; a timeout is a URLError while
\* connecting and a TimeoutError while reading the response; an error status is HTTPError)
Urlopen(hub) ==
    IF hub = "up" THEN {[status |-> 200, raises |-> None]}
    ELSE IF hub \in {"absent", "refusing"} THEN {[status |-> 0, raises |-> "URLError"]}
    ELSE IF hub = "silent"
    THEN {[status |-> 0, raises |-> "URLError"], [status |-> 0, raises |-> "TimeoutError"]}
    ELSE {[status |-> 0, raises |-> "HTTPError"]}

\* a client that catches only URLError
ClientExcept_url_only == {"URLError"}

\* except (urllib.error.URLError, OSError, TimeoutError)
ClientExcept == {"URLError", "OSError", "TimeoutError"}

\* try: with urlopen(...) as resp: return resp.status == 200; except (...): return False
ClientResult(out) ==
    IF out.raises = None
    THEN [returned |-> IF out.status = 200 THEN "true" ELSE "false", raised |-> None]
    ELSE IF \E c \in ClientExcept : IsSubclass(out.raises, c)
    THEN [returned |-> "false", raised |-> None]
    ELSE [returned |-> "nothing", raised |-> out.raises]

(***************************************************************************)
(* SpecClient: a watcher's client makes a few calls while the hub comes    *)
(* and goes.                                                               *)
(***************************************************************************)
\* how many client calls are followed
MaxClientCalls == 2

InitClient ==
    /\ InitDetector
    /\ NoWatcher
    /\ NoHub
    /\ registry = [timeout_seconds |-> 1, cooldown_seconds |-> 0]
    /\ tool_hint = None
    /\ NoSanitize
    /\ NoProxy
    /\ hub_status \in HubStatuses
    /\ client_log = <<>>

\* one operation of the client, from its call to its return
ClientCall(op) ==
    /\ Len(client_log) < MaxClientCalls
    /\ \E out \in Urlopen(hub_status) :
          client_log' = Append(client_log,
                               [op |-> op, hub |-> hub_status, out |-> out,
                                result |-> ClientResult(out)])
    /\ UNCHANGED <<clock, detVars, histVars, thrVars, watchVars, redactVars, hubVars,
                   raw_text, sanitized, hub_status, procVars>>

\* the hub is started or stopped, or the network changes
HubChanges ==
    /\ \E h \in HubStatuses \ {hub_status} : hub_status' = h
    /\ UNCHANGED <<clock, detVars, histVars, thrVars, watchVars, redactVars, hubVars,
                   raw_text, sanitized, client_log, procVars>>

NextClient ==
    \/ \E op \in ClientOps : ClientCall(op)
    \/ HubChanges

SpecClient == InitClient /\ [][NextClient]_vars

\* C23: every ServerClient operation returns false and raises nothing when the hub is
\* absent, refuses the connection, times out or answers with an error status.
C23_ClientNeverRaises ==
    \A i \in 1..Len(client_log) :
        client_log[i].hub # "up" =>
            client_log[i].result = [returned |-> "false", raised |-> None]

\* C23 witness: a call that timed out while reading the response and a call that was
\* answered with an error status both returned false
C23_Witness ==
    /\ Len(client_log) = 2
    /\ client_log[1].out.raises = "TimeoutError"
    /\ client_log[2].out.raises = "HTTPError"
    /\ \A i \in 1..2 : client_log[i].result = [returned |-> "false", raised |-> None]

(***************************************************************************)
(* The watch command (jigai/cli.py watch, Watcher.run) and the PTY proxy   *)
(* it runs (jigai/watcher/pty_proxy.py).  The main thread goes from one    *)
(* system call to the next; the child, the user and the ticker thread act  *)
(* in between.  A chunk is what one os.read of the master returns.         *)
(***************************************************************************)
\* the exit statuses of a child that exits by itself
ExitCodes == {0, 3}

\* what os.write to the parent's output does: it writes the chunk, or raises OSError
\* with errno EAGAIN (retryable) or with another errno
WriteOutcomes == {"ok", "EAGAIN", "EPIPE"}

\* what the steps of the watch command leave alone
procFrame ==
    <<clock, registry, tool_hint, config, frontmost_terminal, stream, pos, histVars,
      thrVars, redactVars, hubVars, raw_text, sanitized, hub_status, client_log>>

\* what Watcher._handle_output and the ticker's check_timeout write
hereVars == <<state, events, watcher, fed>>

\* cli watch: is_server_running decides whether there is a hub client; with one, the
\* idle callback pushes events and the session is registered
CliWatch ==
    /\ run.pc = "new"
    /\ LET up == \E out \in Urlopen(hub_status) : ClientResult(out).returned = "true"
       IN  /\ run' = [run EXCEPT !.pc = "registered", !.server_client = up,
                                 !.log = IF up THEN <<"register">> ELSE <<>>]
           /\ on_idle_event' = up
    /\ UNCHANGED <<hereVars, proxy, child, pty_buffer, terminal, relay, procFrame>>

\* Watcher.run up to the call of proxy.run(): _running is set, the ticker thread is
\* started, the proxy is constructed
WatcherRun ==
    /\ run.pc = "registered"
    /\ run' = [run EXCEPT !.pc = "proxy", !.running = TRUE, !.ticker = "sleep",
                          !.wake = clock + 1, !.log = Append(@, "ticker_start")]
    /\ proxy' = [NewProxy EXCEPT !.pc = "start"]
    /\ UNCHANGED <<hereVars, on_idle_event, child, pty_buffer, terminal, relay, procFrame>>

\* PtyProxy.run up to the I/O loop: tcgetattr (None when stdin is no terminal), openpty,
\* fork, _running = True, raw mode
ProxyStart ==
    /\ run.pc = "proxy"
    /\ proxy.pc = "start"
    /\ \E tty \in BOOLEAN :
          /\ proxy' = [proxy EXCEPT !.pc = "select", !.running = TRUE, !.master = "open",
                                    !.child_pid = TRUE, !.old_termios = tty]
          /\ terminal' = IF tty THEN "raw" ELSE terminal
    /\ child' = [NoChild EXCEPT !.status = "running"]
    /\ run' = [run EXCEPT !.log = Append(@, "proxy_run")]
    /\ UNCHANGED <<hereVars, on_idle_event, pty_buffer, relay, procFrame>>

\* where the loop goes after select, and after the master's turn
AfterSelect(rlist) ==
    IF "master" \in rlist THEN "master" ELSE IF "stdin" \in rlist THEN "stdin" ELSE "reap"

AfterMaster(rlist) == IF "stdin" \in rlist THEN "stdin" ELSE "reap"

\* _io_loop: select.select([master_fd, stdin_fd], [], [], 1.0) on the two descriptors,
\* both set non-blocking before the loop; the master is readable when
\* it holds output or the child is gone; an error of select ends the loop
Select ==
    /\ run.pc = "proxy"
    /\ proxy.pc = "select"
    /\ \E input \in {"quiet", "data", "eof"}, fails \in BOOLEAN :
          LET rlist == (IF pty_buffer # <<>> \/ child.status # "running"
                        THEN {"master"} ELSE {})
                       \cup (IF input # "quiet" THEN {"stdin"} ELSE {})
          IN  proxy' = IF fails THEN At([proxy EXCEPT !.looped = TRUE], "drain")
                       ELSE At([proxy EXCEPT !.rlist = rlist, !.stdin = input,
                                             !.looped = TRUE],
                               AfterSelect(rlist))
    /\ UNCHANGED <<hereVars, on_idle_event, child, pty_buffer, terminal, relay, run,
                   procFrame>>

\* data = os.read(master_fd); os.write(stdout, data); self.on_output(data) inside
\* try/except OSError: the write succeeds or raises, the observer returns or raises; the
\* loop or the drain goes on at pc on, at pc again after EAGAIN, at pc broken after
\* another errno
Relay(w, raises, on, again, broken) ==
    LET data == Head(pty_buffer)
    IN  /\ pty_buffer' = Tail(pty_buffer)
        /\ relay' = [read     |-> Append(relay.read, data),
                     written  |-> IF w = "ok" THEN Append(relay.written, data)
                                  ELSE relay.written,
                     observed |-> IF w = "ok" THEN Append(relay.observed, data)
                                  ELSE relay.observed]
        /\ IF w = "ok" /\ ~raises
           THEN Becomes(handle_output(Here, data, clock))
           ELSE UNCHANGED hereVars
        /\ proxy' = IF w = "ok"
                    THEN IF raises
                         THEN [proxy EXCEPT !.pc = "raised", !.raised = "Exception"]
                         ELSE At(proxy, on)
                    ELSE IF w = "EAGAIN" THEN At(proxy, again)
                    ELSE At(proxy, broken)

\* _io_loop: if master_fd in rlist; an empty read or EIO (the child is gone) ends the loop
ReadMaster ==
    /\ run.pc = "proxy"
    /\ proxy.pc = "master"
    /\ IF pty_buffer = <<>>
       THEN /\ proxy' = At(proxy, "drain")
            /\ UNCHANGED <<hereVars, pty_buffer, relay>>
       ELSE \E w \in WriteOutcomes :
               \E raises \in (IF w = "ok" THEN BOOLEAN ELSE {FALSE}) :
                  Relay(w, raises, AfterMaster(proxy.rlist), AfterMaster(proxy.rlist),
                        "drain")
    /\ UNCHANGED <<on_idle_event, child, terminal, run, procFrame>>

\* _io_loop: if stdin_fd in rlist; end of input ends the loop, and so does a write to
\* the master that fails with an errno other than EAGAIN
ReadStdin ==
    /\ run.pc = "proxy"
    /\ proxy.pc = "stdin"
    /\ \E broken \in BOOLEAN :
          proxy' = IF proxy.stdin = "eof" \/ broken THEN At(proxy, "drain")
                   ELSE At(proxy, "reap")
    /\ UNCHANGED <<hereVars, on_idle_event, child, pty_buffer, terminal, relay, run,
                   procFrame>>

\* _io_loop: os.waitpid(pid, WNOHANG), then the test of the while loop
Reap ==
    /\ run.pc = "proxy"
    /\ proxy.pc = "reap"
    /\ IF child.status = "running"
       THEN /\ proxy' = [proxy EXCEPT !.pc = "select"]
            /\ UNCHANGED child
       ELSE /\ proxy' = [proxy EXCEPT !.exit_code = IF child.status = "exited"
                                                     THEN child.code ELSE -1,
                                      !.running = FALSE, !.pc = "drain"]
            /\ child' = [child EXCEPT !.reaped = TRUE]
    /\ UNCHANGED <<hereVars, on_idle_event, pty_buffer, terminal, relay, run, procFrame>>

\* _io_loop, after the loop: one turn of the drain; an empty read or any OSError ends it
\* (the master is non-blocking: with nothing to read, os.read raises EAGAIN while the
\* child lives and EIO, or returns nothing, once it is gone)
Drain ==
    /\ run.pc = "proxy"
    /\ proxy.pc = "drain"
    /\ IF pty_buffer = <<>>
       THEN /\ proxy' = [proxy EXCEPT !.pc = "wait"]
            /\ UNCHANGED <<hereVars, pty_buffer, relay>>
       ELSE \E w \in WriteOutcomes :
               \E raises \in (IF w = "ok" THEN BOOLEAN ELSE {FALSE}) :
                  Relay(w, raises, "drain", "wait", "wait")
    /\ UNCHANGED <<on_idle_event, child, terminal, run, procFrame>>

\* _io_loop, after the drain: if self._running, the blocking waitpid, whose status sets
\* exit_code only if WIFEXITED; then the master is closed and exit_code returned
Wait ==
    /\ run.pc = "proxy"
    /\ proxy.pc = "wait"
    /\ proxy.running => child.status # "running"
    /\ proxy' = [proxy EXCEPT !.exit_code = IF proxy.running /\ child.status = "exited"
                                            THEN child.code ELSE @,
                              !.master = "closed", !.pc = "restore"]
    /\ child' = IF proxy.running THEN [child EXCEPT !.reaped = TRUE] ELSE child
    /\ UNCHANGED <<hereVars, on_idle_event, pty_buffer, terminal, relay, run, procFrame>>

\* PtyProxy.run, after the I/O loop: _restore_terminal, on_exit (Watcher._handle_exit),
\* return exit_code
ProxyReturn ==
    /\ run.pc = "proxy"
    /\ proxy.pc = "restore"
    /\ terminal' = IF proxy.old_termios THEN "cooked" ELSE terminal
    /\ run' = [run EXCEPT !.running = FALSE]
    /\ watcher' = [watcher EXCEPT !.status = "stopped"]
    /\ proxy' = [proxy EXCEPT !.pc = "returned"]
    /\ UNCHANGED <<state, events, fed, on_idle_event, child, pty_buffer, relay, procFrame>>

\* SIGINT reaches the main thread while proxy.run() is on the stack: KeyboardInterrupt
\* is raised where it is and leaves run()
Interrupt ==
    /\ run.pc = "proxy"
    /\ proxy.pc \notin {"returned", "raised"}
    /\ proxy' = [proxy EXCEPT !.pc = "raised", !.raised = "KeyboardInterrupt"]
    /\ UNCHANGED <<hereVars, on_idle_event, child, pty_buffer, terminal, relay, run,
                   procFrame>>

\* a stop that only clears the flag
stop_no_signal(px, ch) == [proxy |-> [px EXCEPT !.running = FALSE], child |-> ch]

\* PtyProxy.stop: _running = False; if self._child_pid: os.kill(pid, SIGTERM), which
\* raises ProcessLookupError (passed over) when the child was reaped
stop(px, ch) ==
    [proxy |-> [px EXCEPT !.running = FALSE],
     child |-> IF px.child_pid /\ ~ch.reaped THEN [ch EXCEPT !.sigterm = TRUE] ELSE ch]

\* a watcher that returns 0 whatever the proxy returned
ExitCodeOf_zero(px) == 0

\* Watcher.run: exit_code = proxy.run()
ExitCodeOf(px) == px.exit_code

\* Watcher.run: proxy.run() returned; finally: _running = False; return exit_code
WatcherReturn ==
    /\ run.pc = "proxy"
    /\ proxy.pc = "returned"
    /\ run' = [run EXCEPT !.pc = "unregister", !.exit_code = ExitCodeOf(proxy),
                          !.running = FALSE, !.log = Append(@, "proxy_returned")]
    /\ UNCHANGED <<hereVars, on_idle_event, proxy, child, pty_buffer, terminal, relay,
                   procFrame>>

\* Watcher.run: proxy.run() raised; except KeyboardInterrupt: proxy.stop(), exit_code =
\* 130; finally: _running = False; another exception goes on to the caller
WatcherCatch ==
    /\ run.pc = "proxy"
    /\ proxy.pc = "raised"
    /\ IF proxy.raised = "KeyboardInterrupt"
       THEN /\ proxy' = stop(proxy, child).proxy
            /\ child' = stop(proxy, child).child
            /\ run' = [run EXCEPT !.pc = "unregister", !.exit_code = 130,
                                  !.running = FALSE,
                                  !.log = Append(@, "proxy_interrupted")]
       ELSE /\ run' = [run EXCEPT !.pc = "unregister", !.raised = proxy.raised,
                                  !.running = FALSE, !.log = Append(@, "proxy_raised")]
            /\ UNCHANGED <<proxy, child>>
    /\ UNCHANGED <<hereVars, on_idle_event, pty_buffer, terminal, relay, procFrame>>

\* cli watch: finally: if server_client: unregister_session; then typer.Exit(exit_code),
\* or the exception goes on
CliFinally ==
    /\ run.pc = "unregister"
    /\ run' = [run EXCEPT !.pc = "exited",
                          !.log = IF run.server_client THEN Append(@, "unregister") ELSE @]
    /\ UNCHANGED <<hereVars, on_idle_event, proxy, child, pty_buffer, terminal, relay,
                   procFrame>>

\* the child writes a chunk to its terminal
ChildWrites(max) ==
    /\ child.status = "running"
    /\ child.wrote < max
    /\ \E data \in Chunks : pty_buffer' = Append(pty_buffer, data)
    /\ child' = [child EXCEPT !.wrote = @ + 1]
    /\ UNCHANGED <<hereVars, on_idle_event, proxy, terminal, relay, run, procFrame>>

\* the child exits with a status, or is killed by a signal
ChildEnds ==
    /\ child.status = "running"
    /\ LET early == proxy.pc = "select" /\ ~proxy.looped
       IN  \/ \E code \in ExitCodes :
                 child' = [child EXCEPT !.status = "exited", !.code = code,
                                        !.immediate = early]
           \/ child' = [child EXCEPT !.status = "signalled", !.immediate = early]
    /\ UNCHANGED <<hereVars, on_idle_event, proxy, pty_buffer, terminal, relay, run,
                   procFrame>>

\* _timeout_checker: time.sleep(1.0) ends; if self._running, check_timeout is next, else
\* the loop's test ends the thread
TickerWakes ==
    /\ run.pc # "exited"
    /\ run.ticker = "sleep"
    /\ clock >= run.wake
    /\ run' = [run EXCEPT !.ticker = IF run.running THEN "check" ELSE "done"]
    /\ UNCHANGED <<hereVars, on_idle_event, proxy, child, pty_buffer, terminal, relay,
                   procFrame>>

\* _timeout_checker: self.detector.check_timeout(), then the test of the while loop
TickerChecks ==
    /\ run.pc # "exited"
    /\ run.ticker = "check"
    /\ Becomes(AfterCall(Here, check_timeout(Here.d, clock), clock))
    /\ run' = IF run.running THEN [run EXCEPT !.ticker = "sleep", !.wake = clock + 1]
              ELSE [run EXCEPT !.ticker = "done"]
    /\ UNCHANGED <<on_idle_event, proxy, child, pty_buffer, terminal, relay, procFrame>>

(***************************************************************************)
(* SpecProxy: one watch command, from its start to its exit; the child     *)
(* writes a few chunks and ends when it likes, the writes to the parent's  *)
(* output may fail, the observer may raise, SIGINT may arrive.  Time is    *)
(* followed while the ticker sleeps.                                       *)
(***************************************************************************)
\* how many chunks the child writes
MaxChunks == 2

InitProxy ==
    /\ clock = Epoch
    /\ registry = [timeout_seconds |-> 1, cooldown_seconds |-> 0]
    /\ tool_hint = "unknown"
    /\ state = DetectorState(Epoch)
    /\ events = <<>>
    /\ last = [op |-> "init", raw |-> <<>>, now |-> Epoch, pre |-> DetectorState(Epoch),
               n_events |-> 0, since |-> "none"]
    /\ since = "none"
    /\ pc = [t \in Threads |-> "idle"]
    /\ frame = [t \in Threads |-> NoFrame]
    /\ redact_patterns = DefaultRedact
    /\ ring_log = <<>>
    /\ NoWatcher
    /\ NoHub
    /\ NoSanitize
    /\ client_log = <<>>
    /\ hub_status \in {"up", "absent"}
    /\ NoProxy

NextProxy ==
    \/ CliWatch
    \/ WatcherRun
    \/ ProxyStart
    \/ Select
    \/ ReadMaster
    \/ ReadStdin
    \/ Reap
    \/ Drain
    \/ Wait
    \/ ProxyReturn
    \/ Interrupt
    \/ WatcherReturn
    \/ WatcherCatch
    \/ CliFinally
    \/ ChildWrites(MaxChunks)
    \/ ChildEnds
    \/ TickerWakes
    \/ TickerChecks
    \/ run.ticker = "sleep" /\ clock < run.wake /\ Tick

SpecProxy == InitProxy /\ [][NextProxy]_vars

\* C24 as stated: PtyProxy.run returns WEXITSTATUS when the child exited and -1 when a
\* signal ended it, whichever way the I/O loop ended: the reap of an iteration, or a
\* break (end of file or EIO on the master, end of the parent's input) followed by the
\* blocking wait.
C24_Original ==
    proxy.pc = "returned" =>
        /\ child.status = "exited" => proxy.exit_code = child.code
        /\ child.status = "signalled" => proxy.exit_code = -1

\* C25 as stated: on every way out of PtyProxy.run (the child's exit, an I/O error, an
\* exception of the observer, a keyboard interrupt) the master is closed, the terminal
\* attributes are restored and the child is reaped before control returns.
C25_Original ==
    proxy.pc \in {"returned", "raised"} =>
        /\ proxy.master # "open"
        /\ terminal = "cooked"
        /\ proxy.child_pid => child.reaped

\* C27 as stated: every chunk read from the master, in the loop and in the drain, is
\* written unchanged to the parent's output and handed to the observer, in read order,
\* none dropped, duplicated or reordered, also when a write to the parent's output fails
\* with a retryable error.
C27_Original ==
    /\ relay.written = relay.read
    /\ relay.observed = relay.read

\* C29 as stated: when the child exits right after the fork, Watcher.run returns the
\* child's exit code and no idle event is emitted, neither by the pattern path (the
\* loop's reads and the drain) nor by the ticker's timeout path.
C29_Original ==
    (child.immediate /\ child.status = "exited" /\ proxy.raised = None) =>
        /\ events = <<>>
        /\ run.pc = "exited" => run.exit_code = child.code

(***************************************************************************)
(* SpecRun: one watch command as in SpecProxy, with a child that writes    *)
(* less and a ticker that sleeps throughout (no time passes).              *)
(***************************************************************************)
\* how many chunks the child writes
MaxRunChunks == 2

NextRun ==
    \/ CliWatch
    \/ WatcherRun
    \/ ProxyStart
    \/ Select
    \/ ReadMaster
    \/ ReadStdin
    \/ Reap
    \/ Drain
    \/ Wait
    \/ ProxyReturn
    \/ Interrupt
    \/ WatcherReturn
    \/ WatcherCatch
    \/ CliFinally
    \/ ChildWrites(MaxRunChunks)
    \/ ChildEnds

SpecRun == InitProxy /\ [][NextRun]_vars

\* the position of the first x in a log, 0 when it is not there
FirstAt(log, x) ==
    IF InSeq(x, log) THEN CHOOSE i \in 1..Len(log) : log[i] = x /\ ~InSeq(x, SubSeq(log, 1, i - 1))
    ELSE 0

\* C26: a keyboard interrupt that reaches Watcher.run while the proxy runs stops the
\* proxy, SIGTERM is sent to the child, and Watcher.run returns 130.
C26_InterruptStopsProxy ==
    (run.pc \in {"unregister", "exited"} /\ proxy.raised = "KeyboardInterrupt") =>
        /\ ~proxy.running
        /\ (proxy.child_pid /\ ~child.reaped) => child.sigterm
        /\ run.exit_code = 130
        /\ run.raised = None

\* C26 witness: the interrupt arrived after the proxy had relayed output of a child that
\* was still running; the child was sent SIGTERM and the command exited with 130
C26_Witness ==
    /\ run.pc = "exited"
    /\ proxy.raised = "KeyboardInterrupt"
    /\ relay.read # <<>>
    /\ child.sigterm
    /\ ~proxy.running
    /\ run.exit_code = 130

\* C28: with a reachable hub the session is registered before the proxy starts, the
\* ticker is started before the proxy runs, the session is unregistered after the proxy
\* has returned or raised, on every way out (the child's exit, an error, an interrupt),
\* and the value returned is the proxy's exit code.
C28_LifecycleOrder ==
    LET log == run.log
        ends == {"proxy_returned", "proxy_interrupted", "proxy_raised"}
    IN  /\ InSeq("proxy_run", log) =>
              /\ run.server_client => 0 < FirstAt(log, "register")
                                      /\ FirstAt(log, "register") < FirstAt(log, "proxy_run")
              /\ 0 < FirstAt(log, "ticker_start")
              /\ FirstAt(log, "ticker_start") < FirstAt(log, "proxy_run")
        /\ InSeq("unregister", log) =>
              /\ proxy.pc \in {"returned", "raised"}
              /\ \E i \in 1..Len(log) : log[i] \in ends /\ i < FirstAt(log, "unregister")
        /\ (run.pc = "exited" /\ run.server_client) => log[Len(log)] = "unregister"
        /\ (run.pc = "exited" /\ proxy.pc = "returned") =>
              /\ run.exit_code = proxy.exit_code
              /\ run.raised = None

\* C28 witness: with a hub, a child that wrote output exited with status 3: register,
\* ticker, proxy, return, unregister, and the command's exit code is 3
C28_Witness ==
    /\ run.pc = "exited"
    /\ run.server_client
    /\ run.log = <<"register", "ticker_start", "proxy_run", "proxy_returned", "unregister">>
    /\ relay.observed # <<>>
    /\ proxy.exit_code = 3
    /\ run.exit_code = 3


(***************************************************************************)
(* SpecMatch: one Detector with redaction patterns set, fed lines that     *)
(* hold a secret and a prompt at once, with time passing between the feeds *)
(* so that the cooldown gate is met both open and shut.                    *)
(***************************************************************************)
\* how many non-empty lines are fed
MaxMatchFed == 2

\* lines in which a redaction pattern and an idle pattern both match
MatchLines ==
    { <<"a">>,
      <<"k", "=", ">">>,                                \* the secret is the prompt
      <<ESC, "[", "3", "m", "k", "=", "w", " ">>,       \* the secret holds "w"
      <<"Q", ">", " ">>,                                \* an upper-case word, then a prompt
      <<"k", "=", "a">> }                               \* a secret and no prompt

InitMatch ==
    /\ InitDetector
    /\ NoWatcher
    /\ NoHub
    /\ NoRun
    /\ registry.timeout_seconds = 1
    /\ tool_hint = None

\* detector.feed_line(raw) of a line that may hold a secret and a prompt
FeedMatch ==
    /\ Len(ring_log) < MaxMatchFed
    /\ \E raw \in MatchLines :
          Called("feed_line", raw, feed_line([state |-> state, events |-> events], raw, clock))

NextMatch == Tick \/ SetRedactPatterns \/ FeedMatch

SpecMatch == InitMatch /\ [][NextMatch]_vars

\* C31: feed_line decides the pattern match on the ANSI-stripped, trimmed, un-redacted
\* line: a line in which a redaction pattern matches reaches _trigger_idle exactly when
\* an idle pattern matches the un-redacted line (and the event is emitted exactly when
\* the cooldown gate is open, as for any line), while the ring entry and the last of the
\* event's recent lines are the redacted copy.
C31_MatchOnUnredacted ==
    (last.op = "feed_line" /\ Clean(last.raw) # <<>> /\ StillMatches(Clean(last.raw))) =>
        LET clean == Clean(last.raw)
            permitted ==
                last.now - last.pre.last_idle_notification >= registry.cooldown_seconds
            buf == state.output_buffer
        IN  /\ Fired <=> (match_any(clean) # None /\ permitted)
            /\ buf # <<>>
            /\ buf[Len(buf)] = RedactWith(redact_patterns, clean)
            /\ buf[Len(buf)] # clean
            /\ Fired =>
                  LET ev == events[Len(events)]
                  IN  /\ ev.method = "pattern"
                      /\ ev.recent # <<>>
                      /\ ev.recent[Len(ev.recent)] = RedactWith(redact_patterns, clean)
                      /\ \A i \in 1..Len(ev.recent) : ev.recent[i] # clean

\* C31 witness: the line "k=>" was fed under the keyword pattern; its redacted copy
\* "[REDACTED]" matches no idle pattern, and a claude_code event was emitted
C31_Witness ==
    /\ last.op = "feed_line"
    /\ last.raw = <<"k", "=", ">">>
    /\ redact_patterns = <<KeywordPattern>>
    /\ match_any(RedactWith(redact_patterns, Clean(last.raw))) = None
    /\ Fired
    /\ events[Len(events)].tool_key = "claude_code"
    /\ events[Len(events)].recent[Len(events[Len(events)].recent)] = <<"[REDACTED]">>


(***************************************************************************)
(* The end of Watcher.run, under SpecRun: on_exit (Watcher._handle_exit)   *)
(* is the last statement but one of PtyProxy.run, modelled by ProxyReturn. *)
(***************************************************************************)
\* C32 as stated: whenever Watcher.run has returned, by normal child exit or by keyboard
\* interrupt, the proxy's on-exit callback has been invoked with the returned exit code
\* and the session status is STOPPED.
C32_Original ==
    (run.pc \in {"unregister", "exited"} /\ run.raised = None) =>
        /\ proxy.pc = "returned"
        /\ proxy.exit_code = run.exit_code
        /\ watcher.status = "stopped"


(***************************************************************************)
(* The ticker after the proxy has returned, under SpecProxy: the ticker    *)
(* reads _running twice (the loop test and the if) and then calls          *)
(* check_timeout; _handle_exit clears _running on the main thread.         *)
(***************************************************************************)
\* C33 as stated: once the proxy has returned and the session status is STOPPED, the
\* ticker makes no further check_timeout call, no idle event is emitted or pushed to the
\* hub, and the session status never changes back to IDLE, under any interleaving of the
\* ticker thread with the main thread.
C33_Original ==
    [][ (proxy.pc = "returned" /\ watcher.status = "stopped") =>
            /\ ~(run.ticker = "check" /\ run'.ticker # "check")
            /\ events' = events
            /\ watcher'.pushed = watcher.pushed
            /\ watcher'.status = "stopped" ]_vars


(***************************************************************************)
(* SpecSilence: one Detector whose ticker keeps calling check_timeout      *)
(* while time passes.  The child prints its lines early enough for the     *)
(* clock to be followed max(timeout, cooldown) seconds past the last one.  *)
(* Fairness: time.sleep(1.0) returns and the loop of _timeout_checker      *)
(* calls check_timeout again as long as the watcher runs.                  *)
(***************************************************************************)
\* how many non-empty lines the child prints before it falls silent
MaxSilenceFed == 2

\* lines the child prints: plain output, a prompt, blank output
SilenceLines == { <<"a">>, <<">", " ">>, <<" ">> }

\* the larger of the two periods
LongestWait == IF MaxTimeout > MaxCooldown THEN MaxTimeout ELSE MaxCooldown

InitSilence == InitDetector /\ NoWatcher /\ NoHub /\ NoRun /\ tool_hint = "unknown"

\* detector.feed_line(raw), while the child still prints
FeedSilence ==
    /\ Len(ring_log) < MaxSilenceFed
    /\ clock + LongestWait <= Epoch + Horizon
    /\ \E raw \in SilenceLines :
          Called("feed_line", raw, feed_line([state |-> state, events |-> events], raw, clock))

\* the ticker's detector.check_timeout()
CheckSilence ==
    Called("check_timeout", <<>>, check_timeout([state |-> state, events |-> events], clock))

NextSilence == Tick \/ FeedSilence \/ CheckSilence

SpecSilence ==
    /\ InitSilence
    /\ [][NextSilence]_vars
    /\ WF_vars(Tick)
    /\ WF_vars(CheckSilence)

\* the silence after the last non-empty line has its idle event
SilenceReported ==
    /\ state.is_idle
    /\ events # <<>>
    /\ events[Len(events)].now >= state.last_output_time

\* C34: if the child produces no further non-empty output after some line and the
\* ticker keeps calling check_timeout, then is_idle eventually becomes true and an idle
\* event for that silence is eventually emitted, even when a pattern match on the last
\* line was suppressed by the cooldown gate or cooldown_seconds exceeds timeout_seconds.
C34_SilenceIsReported == <>[](ring_log # <<>> => SilenceReported)

\* C34 witness: with cooldown_seconds above timeout_seconds, the last line was a prompt
\* whose pattern event the cooldown gate suppressed, and the timeout event of the
\* silence after it was emitted later than timeout_seconds after the line
C34_Witness ==
    /\ registry.cooldown_seconds > registry.timeout_seconds
    /\ Len(ring_log) = 2
    /\ match_any(Clean(ring_log[2])) # None
    /\ Len(events) = 2
    /\ events[1].method = "pattern"
    /\ state.last_output_time - events[1].now < registry.cooldown_seconds
    /\ events[2].method = "timeout"
    /\ events[2].idle_seconds > registry.timeout_seconds
    /\ SilenceReported


(***************************************************************************)
(* idle_seconds under SpecThreads: _trigger_idle reads last_output_time    *)
(* after check_timeout has compared it with the timeout, and feed_line may *)
(* write it in between.                                                    *)
(***************************************************************************)
\* C35 as stated: under any interleaving of feed_line (PTY thread) and check_timeout
\* (ticker thread), every event emitted with method "timeout" reports
\* idle_seconds >= timeout_seconds and no event reports a negative idle_seconds.
C35_Original ==
    \A e \in 1..Len(events) :
        /\ events[e].idle_seconds >= 0
        /\ events[e].method = "timeout" =>
              events[e].idle_seconds >= registry.timeout_seconds


(***************************************************************************)
(* The session status against the detector's flag, under SpecWatch.        *)
(***************************************************************************)
\* C36 as stated: while the session is not STOPPED, the watcher's session.status is IDLE
\* exactly when the detector's is_idle is true: a non-empty line arriving after an idle
\* event returns the session status to ACTIVE.
C36_Original ==
    watcher.status # "stopped" => (watcher.status = "idle" <=> state.is_idle)


(***************************************************************************)
(* A late event against an unregistration, under SpecSessions: the hub     *)
(* takes the requests of a watcher's two threads (the ticker's POST        *)
(* /api/events, the main thread's DELETE /api/sessions/{id}) in the order  *)
(* they reach it.                                                          *)
(***************************************************************************)
\* C37 as stated: after the hub has processed the DELETE of a session id, its session
\* map does not contain that id again unless the session is re-registered, even when an
\* idle event for that session is processed after the DELETE.
C37_Original ==
    [][ \A sid \in SessionIds :
           (last_request[sid].kind = "delete" /\ sessions'[sid] # "absent") =>
               last_request'[sid].kind = "register" ]_vars


(***************************************************************************)
(* SpecOrder: events are posted while earlier broadcasts are suspended in  *)
(* their sends, so that handlers queue for the manager's lock; two         *)
(* subscribers connect, and may leave.                                     *)
(***************************************************************************)
\* how many events are posted
MaxOrderPosts == 3

NextOrder ==
    \/ \E p \in Posts : ReceiveEvent(p, MaxOrderPosts, {"sess"})
    \/ \E p \in Posts : BroadcastAcquire(p)
    \/ \E p \in Posts : BroadcastSend(p)
    \/ \E s \in Sockets : WsAccept(s)
    \/ \E s \in Sockets : WsRegister(s)
    \/ \E s \in Sockets : WsHello(s)
    \/ \E s \in Sockets : WsLeave(s)
    \/ \E s \in Sockets : WsUnregister(s)
    \/ ClientClose("s2")

SpecOrder == InitHub /\ [][NextOrder]_vars

\* the place of event n in the history, 0 when it is not there
HistoryPlace(n) ==
    IF \E k \in 1..Len(event_history) : event_history[k].seq = n
    THEN CHOOSE k \in 1..Len(event_history) : event_history[k].seq = n
    ELSE 0

\* the idle_detected frames a client was delivered, as event numbers in delivery order
Delivered(s) ==
    LET RECURSIVE Pick(_)
        Pick(q) == IF q = <<>> THEN <<>>
                   ELSE IF Head(q).type = "idle_detected"
                        THEN <<Head(q).seq>> \o Pick(Tail(q))
                        ELSE Pick(Tail(q))
    IN  Pick(inbox[s])

\* C38: for any interleaving of concurrent POST /api/events handlers, every subscriber
\* that stays connected receives the idle_detected frames in the same relative order as
\* the events appear in the hub's event history, and all subscribers see the same order.
C38_FramesInHistoryOrder ==
    /\ \A s \in Sockets :
          sockets[s].link = "open" =>
              \A i \in 1..Len(Delivered(s)) : \A j \in (i + 1)..Len(Delivered(s)) :
                  /\ HistoryPlace(Delivered(s)[i]) > 0
                  /\ HistoryPlace(Delivered(s)[i]) < HistoryPlace(Delivered(s)[j])
    /\ \A s \in Sockets : \A t \in Sockets :
          (sockets[s].link = "open" /\ sockets[t].link = "open") =>
              \A i \in 1..Len(Delivered(s)) : \A j \in (i + 1)..Len(Delivered(s)) :
                  \A k \in 1..Len(Delivered(t)) : \A l \in 1..Len(Delivered(t)) :
                      (Delivered(t)[k] = Delivered(s)[i] /\ Delivered(t)[l] = Delivered(s)[j])
                          => k < l

\* C38 witness: both subscribers were delivered the first event; its handler returned
\* and took the third event while the handler of the second was still waiting for the
\* lock: the lock is unlocked, and the third event queues behind the second
C38_Witness ==
    /\ sockets["s1"].link = "open"
    /\ sockets["s2"].link = "open"
    /\ Delivered("s1") = <<1>>
    /\ Delivered("s2") = <<1>>
    /\ lock = None
    /\ waiters = <<"p2", "p1">>
    /\ tasks["p2"].event.seq = 2
    /\ tasks["p1"].event.seq = 3

\* ---------------------------------------------------------------------------------
\* The connect path against POST /api/sessions: a subscriber that stays connected
\* ---------------------------------------------------------------------------------

\* the most registrations the hub takes
MaxConnectRequests == 3

\* registrations interleaved with two sockets connecting; the client of s1 keeps its
\* connection, the client of s2 may close it
NextConnect ==
    \/ \E p \in Posts : RegisterSession(p, MaxConnectRequests)
    \/ \E p \in Posts : BroadcastAcquire(p)
    \/ \E p \in Posts : BroadcastSend(p)
    \/ \E s \in Sockets : WsAccept(s)
    \/ \E s \in Sockets : WsRegister(s)
    \/ \E s \in Sockets : WsHello(s)
    \/ ClientClose("s2")
    \/ WsLeave("s2")
    \/ WsUnregister("s2")

SpecConnect == InitHub /\ [][NextConnect]_vars

\* POST /api/sessions was taken for the session
Registered(sid) == last_request[sid].kind = "register"

\* the session is in the sessions list of the "connected" frame the client read first
InConnectedFrame(s, sid) ==
    /\ inbox[s] # <<>>
    /\ Head(inbox[s]).type = "connected"
    /\ sid \in Head(inbox[s]).listed

\* the client read a "session_started" frame of the session after its "connected" frame
StartedAfterwards(s, sid) ==
    \E k \in 2..Len(inbox[s]) :
        /\ inbox[s][k].type = "session_started"
        /\ inbox[s][k].session_id = sid

\* a register_session handler of the session has not returned from its broadcast
StillBroadcasting(sid) ==
    \E p \in Posts :
        /\ tasks[p].pc \in {"lock", "send"}
        /\ tasks[p].event.type = "session_started"
        /\ tasks[p].event.session_id = sid

\* the client is connected and connect() has put its socket on the list
Subscribed(s) == sockets[s].link = "open" /\ sockets[s].at \in {"hello", "serve"}

\* C39: a subscriber that connects and stays connected misses no session: once its
\* socket is on the list, every session a POST /api/sessions registered is in the
\* sessions list of its "connected" frame, or reaches it afterwards as a
\* "session_started" frame by the time the handler's broadcast has returned
C39_NoSessionMissed ==
    \A s \in Sockets :
        Subscribed(s) =>
            /\ inbox[s] # <<>>
            /\ Head(inbox[s]).type = "connected"
            /\ \A sid \in SessionIds :
                   Registered(sid) =>
                       \/ InConnectedFrame(s, sid)
                       \/ StartedAfterwards(s, sid)
                       \/ StillBroadcasting(sid)

\* one session registered before the socket joined the list and one after: the first
\* is in the "connected" frame, the second arrived as a frame, all handlers returned
C39_Witness ==
    /\ Subscribed("s1")
    /\ inbox["s1"] = <<Connected({"sess"}), Frame(SessionStarted("other"))>>
    /\ \A p \in Posts : tasks[p].pc = "idle"
    /\ Registered("sess")
    /\ Registered("other")

\* ---------------------------------------------------------------------------------
\* The I/O loop after the end of the parent's input
\* ---------------------------------------------------------------------------------

\* C40 as stated: while the child is alive its output keeps being relayed: after the
\* parent's input reaches EOF the proxy does not stop draining the master, and is not
\* in the blocking wait while the child is running and its output sits unread.
C40_Original ==
    (proxy.stdin = "eof" /\ proxy.pc = "wait" /\ proxy.running) =>
        /\ child.status # "running"
        /\ pty_buffer = <<>>

====
